---- MODULE Spec2Model ----
(***************************************************************************)
(* Model of the grab-event pipeline of sonarr-extension-filter             *)
(* (app/webhook_handler.py, app/extension_checker.py, app/sonarr/api.py).  *)
(*                                                                         *)
(* Strings are sequences of one-character strings, so that lower(),        *)
(* startswith(), the substring test and os.path.splitext are computed and  *)
(* not assumed.  Python values that the code tests for truthiness are      *)
(* tagged records (None / str / int).                                      *)
(***************************************************************************)
EXTENDS Integers, Sequences, FiniteSets, TLC

\* ------------------------------------------------------------------ bounds
MaxQueue == 2        \* longest queue listing returned by Sonarr
MaxFiles == 2        \* longest file list returned by the download client

\* ------------------------------------------------------- program constants
max_retries == 3     \* _wait_for_torrent(download_id, max_retries=3)
backoff_base == 2    \* wait_time = 2 ** (attempt + 1)
verify_delay == 1    \* time.sleep(1) in SonarrAPI.remove_from_queue
qbittorrent_max_retries == 2  \* max_retries of QBittorrentClient._make_authenticated_request
deluge_max_retries == 1       \* max_retries of DelugeClient._rpc_call

\* ------------------------------------------------------------ Python values
None == [t |-> "none", s |-> <<>>, n |-> 0]
Str(s) == [t |-> "str", s |-> s, n |-> 0]
Num(n) == [t |-> "int", s |-> <<>>, n |-> n]

\* a key that the dict does not have, and dict.get(key, default)
Missing == [t |-> "missing", s |-> <<>>, n |-> 0]
Get(v, default) == IF v = Missing THEN default ELSE v

\* Python truthiness of None, str and int (the `if x:` / `not x` tests)
Truthy(v) ==
    CASE v.t = "none" -> FALSE
      [] v.t = "str"  -> v.s # <<>>
      [] v.t = "int"  -> v.n # 0

UpperAlphabet == <<"A","B","C","D","E","F","G","H","I","J","K","L","M",
                   "N","O","P","Q","R","S","T","U","V","W","X","Y","Z">>
LowerAlphabet == <<"a","b","c","d","e","f","g","h","i","j","k","l","m",
                   "n","o","p","q","r","s","t","u","v","w","x","y","z">>

\* str.lower() on one character
LowerChar(c) ==
    IF \E i \in 1..Len(UpperAlphabet) : UpperAlphabet[i] = c
    THEN LowerAlphabet[CHOOSE i \in 1..Len(UpperAlphabet) : UpperAlphabet[i] = c]
    ELSE c

\* str.lower()
Lower(s) == [i \in 1..Len(s) |-> LowerChar(s[i])]

\* `needle in hay` for strings
IsSubstring(needle, hay) ==
    \E i \in 0..(Len(hay) - Len(needle)) :
        SubSeq(hay, i + 1, i + Len(needle)) = needle

\* str.rfind(c): 0-based index of the last occurrence, -1 when there is none
RFind(s, c) ==
    IF \E i \in 1..Len(s) : s[i] = c
    THEN (CHOOSE i \in 1..Len(s) : s[i] = c /\ \A j \in (i+1)..Len(s) : s[j] # c) - 1
    ELSE -1

\* the suffix from the last dot of the last segment, wherever that dot is
SplitExt_AnyDot(p) ==
    LET sepIndex == RFind(p, "/")
        dotIndex == RFind(p, ".")
    IN  IF dotIndex > sepIndex
        THEN SubSeq(p, dotIndex + 1, Len(p))
        ELSE <<>>

\* os.path.splitext(p)[1] (posixpath): the suffix from the last dot of the
\* last segment, unless that segment has only dots before it
SplitExt(p) ==
    LET sepIndex == RFind(p, "/")
        dotIndex == RFind(p, ".")
    IN  IF dotIndex > sepIndex
           /\ \E k \in (sepIndex + 1)..(dotIndex - 1) : p[k + 1] # "."
        THEN SubSeq(p, dotIndex + 1, Len(p))
        ELSE <<>>

\* the entries are dot-prefixed and kept in the letter case they have
NormalizeExtensions_NoLower(exts) ==
    [i \in 1..Len(exts) |->
        IF Len(exts[i]) > 0 /\ exts[i][1] = "." THEN exts[i] ELSE <<".">> \o exts[i]]

\* ExtensionChecker.__init__: dot-prefix, then lower-case, each entry
NormalizeExtensions(exts) ==
    [i \in 1..Len(exts) |->
        Lower(IF Len(exts[i]) > 0 /\ exts[i][1] = "." THEN exts[i] ELSE <<".">> \o exts[i])]

InSeq(x, seq) == \E i \in 1..Len(seq) : seq[i] = x

\* ExtensionChecker.is_extension_blocked
is_extension_blocked(exts, filename) ==
    InSeq(Lower(SplitExt(filename)), exts)

RECURSIVE Reverse(_)
Reverse(s) == IF s = <<>> THEN <<>> ELSE Append(Reverse(Tail(s)), Head(s))

\* the blocked files, last one first
check_files_Reversed(exts, file_list) ==
    Reverse(SelectSeq(file_list, LAMBDA f : is_extension_blocked(exts, f)))

\* ExtensionChecker.check_files
check_files(exts, file_list) ==
    SelectSeq(file_list, LAMBDA f : is_extension_blocked(exts, f))

\* ------------------------------------------------------------ configuration
\* config.filtering.blocked_extensions as configured: "exe", ".BAT"
ConfiguredExtensions == << <<"e","x","e">>, <<".","B","A","T">> >>

ActRemove == <<"r","e","m","o","v","e">>
ActRemoveAndBlocklist ==
    <<"R","e","m","o","v","e","_","A","n","d","_","B","l","o","c","k","L","i","s","t">>
\* values of config.filtering.action
Actions == {ActRemove, ActRemoveAndBlocklist}

\* 'blocklist' in action, in the letter case the action is written in
BlocklistPolicy_CaseSensitive(act) ==
    IsSubstring(<<"b","l","o","c","k","l","i","s","t">>, act)

\* 'blocklist' in action.lower()
BlocklistPolicy(act) ==
    IsSubstring(<<"b","l","o","c","k","l","i","s","t">>, Lower(act))

\* ------------------------------------------------------------------ inputs
IdLower == <<"a","b">>
IdMixed == <<"A","b">>

\* payload['downloadId']: key missing or "" (both ''), JSON null, a hash
PayloadDownloadIds == {Str(<<>>), None, Str(IdMixed)}

IdUpper == <<"A","B">>

\* records of GET /api/v3/queue; the last one is a malformed record whose
\* downloadId is not a string
QueueRecords ==
    { [id |-> 0, downloadId |-> Str(IdLower)],
      [id |-> 42, downloadId |-> Str(IdUpper)],
      [id |-> 9, downloadId |-> Num(5)] }

RECURSIVE InjSeqs(_, _)
\* sequences without repetition, of length at most n, over the set S
InjSeqs(S, n) ==
    IF n = 0 THEN {<<>>}
    ELSE LET shorter == InjSeqs(S, n - 1)
         IN  shorter \cup
             {Append(q, x) : <<q, x>> \in
                {<<q, x>> \in shorter \X S : Len(q) = n - 1 /\ ~InSeq(x, q)}}

Queues == InjSeqs(QueueRecords, MaxQueue)

PathMkv == <<"s",".","m","k","v">>
PathExe == <<"s",".","E","x","e">>
PathBat == <<"d","/","x",".","b","a","t">>
Paths == {PathMkv, PathExe, PathBat}

\* the history Sonarr keeps for the download, newest first
Histories ==
    { <<>>,
      << [id |-> 14, eventType |-> "downloadFailed"] >>,
      << [id |-> 11, eventType |-> "downloadFailed"],
         [id |-> 12, eventType |-> "grabbed"],
         [id |-> 13, eventType |-> "grabbed"] >> }

\* lines 170-174: the first item whose eventType is 'grabbed', None if none
FirstGrabbed(history_items) ==
    IF \E i \in 1..Len(history_items) : history_items[i].eventType = "grabbed"
    THEN Num(history_items[
             CHOOSE i \in 1..Len(history_items) :
                /\ history_items[i].eventType = "grabbed"
                /\ \A j \in 1..(i - 1) : history_items[j].eventType # "grabbed"].id)
    ELSE None

\* replies of download_client.get_torrent_files: None or {'files': [...]}
Absent == [present |-> FALSE, files |-> <<>>]
Manifest(fs) == [present |-> TRUE, files |-> fs]
ManifestReplies == {Absent} \cup {Manifest(fs) : fs \in InjSeqs(Paths, MaxFiles)}

\* a manifest without files counts as retrieved
Usable_PresentOnly(reply) == reply.present

\* `torrent_data and torrent_data.get('files')`
Usable(torrent_data) == torrent_data.present /\ torrent_data.files # <<>>


\* ------------------------------------------------------------------- state
VARIABLES
    payload,        \* the webhook payload of the grab notification
    action,         \* config.filtering.action
    queue,          \* Sonarr's live queue (changes behind the pipeline's back)
    history,        \* Sonarr's history records for the download
    pc,             \* position of process_grab_event
    queue_id,       \* local queue_id of process_grab_event
    attempt,        \* loop variable of _wait_for_torrent
    torrent_data,   \* local torrent_data of process_grab_event
    blocked_files,  \* local blocked_files of process_grab_event
    calls,          \* every capability call and sleep of the run, in order
    results,        \* the values process_grab_event has returned
    extension_checker,  \* the ExtensionChecker: its config and its list
    http,           \* the request body received by /webhook and the responses sent
    stats_calls,    \* the calls handle_webhook has made on the Statistics object
    download_client, \* config.download_client.type and the client built from it
    session,        \* the client's _authenticated (_initialized) and session_id
    torrent,        \* what the download client's backend holds for the download
    tasks,          \* the threads inside get_torrent_files or remove_torrent
    stats,          \* the Statistics object: its lock, counters and file
    callers,        \* the threads inside a method of the Statistics object
    parked,         \* the local variables of a second run that is not scheduled
    manifest_replies \* the answers the download client can give to get_torrent_files

\* what lies outside process_grab_event
\* the state of the download client and of the calls in progress on it
client_vars == <<session, torrent, tasks>>

\* the Statistics object and the calls in progress on it
stats_vars == <<stats, callers>>

outer_vars == <<http, stats_calls, download_client, client_vars, stats_vars, parked, manifest_replies>>

QBittorrent == <<"q","b","i","t","t","o","r","r","e","n","t">>
Transmission == <<"t","r","a","n","s","m","i","s","s","i","o","n">>
Deluge == <<"d","e","l","u","g","e">>

vars == <<payload, action, queue, history, pc, queue_id, attempt, torrent_data,
          blocked_files, calls, results, extension_checker, outer_vars>>

\* two threads that call the one download-client instance of the handler
Tasks == {"thread_1", "thread_2"}

\* what the backend holds for the download identifier of the call
TorrentStates == {"unknown", "unpopulated", "files"}

\* a thread that has not called the client yet
IdleTask == [op |-> "none", pc |-> "idle", attempt |-> 0, ret |-> "pending",
             resume |-> "none", requests |-> 0, logins |-> 0, returns |-> 0,
             cause |-> "none"]

\* a client just constructed, no thread inside it
ClientIdle ==
    /\ session = [authenticated |-> FALSE, session_id |-> FALSE]
    /\ torrent = "files"
    /\ tasks = [t \in Tasks |-> IdleTask]

\* the counters of a Statistics object: total_* and the extension_counts entries
Total(name) == [field |-> name, ext |-> <<>>]
ExtensionCount(ext) == [field |-> "extension_counts", ext |-> ext]

\* lines 133-134: the key add_blocked_file counts a file under
StatsKey(file_path) ==
    IF RFind(file_path, ".") >= 0
    THEN ExtensionCount(<<".">> \o Lower(SubSeq(file_path, RFind(file_path, ".") + 2,
                                                Len(file_path))))
    ELSE ExtensionCount(<<".","u","n","k","n","o","w","n">>)

PathNoDot == <<"r","e","a","d","m","e">>

\* the blocked_files lists handed to add_blocked_file
BlockedFileLists == {<<PathExe>>, <<PathExe, PathBat>>, <<PathExe, PathExe>>, <<PathNoDot>>}

StatsKeys ==
    {Total("total_processed"), Total("total_blocked"), Total("total_errors")}
       \cup {StatsKey(p) : p \in {PathExe, PathBat, PathNoDot}}

\* the counters a call adds one to, in order
KeysOf(op, files) ==
    CASE op = "increment_processed" -> << Total("total_processed") >>
      [] op = "increment_blocked" -> << Total("total_blocked") >>
      [] op = "increment_errors" -> << Total("total_errors") >>
      [] op = "add_blocked_file" -> [i \in 1..Len(files) |-> StatsKey(files[i])]
      [] op = "get_stats" -> <<>>

\* a thread that is not inside a Statistics method
IdleCaller == [op |-> "none", pc |-> "idle", keys |-> <<>>, i |-> 1, read |-> 0]

\* a Statistics object just constructed, its file missing or written by an
\* earlier run that had counted nothing
StatsIdle ==
    /\ stats = [lock |-> "free",
                counts |-> [k \in StatsKeys |-> 0],
                file |-> [exists |-> FALSE, counts |-> [k \in StatsKeys |-> 0]]]
    /\ callers = [t \in Tasks |-> IdleCaller]

\* no second run
NoRun ==
    [payload |-> [downloadId |-> None], pc |-> "none", queue_id |-> None,
     attempt |-> 0, torrent_data |-> Absent, blocked_files |-> <<>>,
     calls |-> <<>>, results |-> <<>>]

\* no request is being handled by handle_webhook
OuterIdle ==
    /\ ClientIdle
    /\ StatsIdle
    /\ parked = NoRun
    /\ manifest_replies = ManifestReplies
    /\ http = [body |-> "dict", responses |-> <<>>]
    /\ stats_calls = <<>>
    /\ download_client = [type |-> Str(QBittorrent), client |-> QBittorrent]

\* self.blocked_extensions of the ExtensionChecker
blocked_extensions == extension_checker.blocked_extensions

\* the ExtensionChecker that ExtensionChecker(filtering_config, logger) returns
ExtensionChecker(configured) ==
    [configured |-> configured, blocked_extensions |-> NormalizeExtensions(configured)]

\* the methods class SonarrAPI defines
SonarrAPIMethods == {"get_queue", "remove_from_queue", "get_blocklist", "get_series"}

Msg(text, n, detail) == [text |-> text, n |-> n, detail |-> detail]

\* the dict literals returned by process_grab_event
Result(status, message, keys, files, removed_from, blocklisted) ==
    [status |-> status, message |-> message, keys |-> keys,
     blocked_files |-> files, removed_from |-> removed_from,
     blocklisted |-> blocklisted]

Plain(status, message) ==
    Result(status, message, {"status", "message"}, <<>>, "", FALSE)

Call(op, arg, ret) == [op |-> op, arg |-> arg, ret |-> ret]

NoArg == [none |-> TRUE]

\* download_id = payload.get('downloadId', '')
download_id == payload.downloadId

\* a path that ends without handing a result to the caller
Return_NoResult(r) ==
    /\ pc' = "done"
    /\ UNCHANGED results

Return(r) ==
    /\ results' = Append(results, r)
    /\ pc' = "done"

\* the fault leaves process_grab_event: the run is over without a result
RaiseToBoundary_Propagates(description) ==
    /\ pc' = "done"
    /\ UNCHANGED results

\* the outer `except Exception as e` of process_grab_event
RaiseToBoundary(description) ==
    Return(Plain("error", Msg("", 0, description)))

\* the inner `except Exception as e` around the direct removal
RaiseInClientRemoval(description) ==
    Return(Plain("error", Msg("Error removing from download client: ", 0, description)))

RECURSIVE ScanQueue(_, _, _)
\* the for loop of _get_queue_id from item i on
ScanQueue(queue_items, i, download_id_lower) ==
    IF i > Len(queue_items)
    THEN [fault |-> FALSE, value |-> None, description |-> ""]
    ELSE LET queue_download_id == Get(queue_items[i].downloadId, Str(<<>>))
         IN  IF Truthy(queue_download_id) /\ queue_download_id.t # "str"
             THEN [fault |-> TRUE, value |-> None,
                   description |-> "'int' object has no attribute 'lower'"]
             ELSE LET queue_download_id_lower ==
                          IF Truthy(queue_download_id)
                          THEN Lower(queue_download_id.s) ELSE <<>>
                  IN  IF queue_download_id_lower = download_id_lower
                      THEN [fault |-> FALSE, value |-> Num(queue_items[i].id),
                            description |-> ""]
                      ELSE ScanQueue(queue_items, i + 1, download_id_lower)

NotAvailable == <<"N","/","A">>

\* str.join raises TypeError on the first item that is not a str
JoinFaultText ==
    << "sequence item 0: expected str instance, NoneType found",
       "sequence item 1: expected str instance, NoneType found",
       "sequence item 2: expected str instance, NoneType found",
       "sequence item 3: expected str instance, NoneType found",
       "sequence item 4: expected str instance, NoneType found" >>

\* lines 257-259: the downloadIds of the first five items, joined for the log
JoinQueueIds(queue_items) ==
    LET shown == 1..(IF Len(queue_items) < 5 THEN Len(queue_items) ELSE 5)
        bad == {i \in shown :
                   Get(queue_items[i].downloadId, Str(NotAvailable)).t # "str"}
    IN  IF bad = {}
        THEN [fault |-> FALSE, value |-> None, description |-> ""]
        ELSE [fault |-> TRUE, value |-> None,
              description |-> JoinFaultText[CHOOSE i \in bad : \A j \in bad : i <= j]]

\* the first matching entry, whatever the letter case of either side
get_queue_id_Prefix(queue_items, did) ==
    IF \E i \in 1..Len(queue_items) :
           /\ queue_items[i].downloadId.t = "str"
           /\ Len(queue_items[i].downloadId.s) >= Len(did.s)
           /\ Lower(SubSeq(queue_items[i].downloadId.s, 1, Len(did.s))) = Lower(did.s)
    THEN [fault |-> FALSE, description |-> "",
          value |-> Num(queue_items[CHOOSE i \in 1..Len(queue_items) :
              /\ queue_items[i].downloadId.t = "str"
              /\ Len(queue_items[i].downloadId.s) >= Len(did.s)
              /\ Lower(SubSeq(queue_items[i].downloadId.s, 1, Len(did.s))) = Lower(did.s)
              /\ \A j \in 1..(i - 1) :
                    ~(/\ queue_items[j].downloadId.t = "str"
                      /\ Len(queue_items[j].downloadId.s) >= Len(did.s)
                      /\ Lower(SubSeq(queue_items[j].downloadId.s, 1, Len(did.s)))
                            = Lower(did.s))].id)]
    ELSE [fault |-> FALSE, value |-> None, description |-> ""]

\* WebhookHandler._get_queue_id on the listing returned by get_queue
get_queue_id(queue_items, did) ==
    LET scanned == ScanQueue(queue_items, 1, IF Truthy(did) THEN Lower(did.s) ELSE <<>>)
    IN  IF scanned.fault \/ scanned.value # None \/ queue_items = <<>>
        THEN scanned
        ELSE JoinQueueIds(queue_items)

\* the same delay before every attempt
wait_time_Fixed(a) == backoff_base

\* a delay that grows by the base instead of doubling
wait_time_Linear(a) == backoff_base * (a + 1)

\* the first attempt is made at once
wait_time_NoFirstDelay(a) == IF a = 0 THEN 0 ELSE backoff_base ^ (a + 1)

\* wait_time = 2 ** (attempt + 1)
wait_time(a) == backoff_base ^ (a + 1)

\* `if queue_id:` in process_grab_event
QueueIdCaptured(qid) == Truthy(qid)

Init ==
    /\ payload \in [downloadId : PayloadDownloadIds]
    /\ action \in Actions
    /\ queue \in Queues
    /\ history \in Histories
    /\ pc = "start"
    /\ queue_id = None
    /\ attempt = 0
    /\ torrent_data = Absent
    /\ blocked_files = <<>>
    /\ calls = <<>>
    /\ results = <<>>
    /\ extension_checker = ExtensionChecker(ConfiguredExtensions)
    /\ OuterIdle

\* only a null download id is rejected
MissingDownloadId_NullOnly(did) == did.t = "none"

\* line 90: `if not download_id:`
MissingDownloadId(did) == ~Truthy(did)

\* lines 83-95: read the payload, reject a missing download id
Validate ==
    /\ pc = "start"
    /\ IF MissingDownloadId(download_id)
       THEN Return(Plain("warning", Msg("No download ID provided", 0, "")))
       ELSE pc' = "get_queue_id" /\ UNCHANGED results
    /\ UNCHANGED <<outer_vars, extension_checker, payload, action, queue, history, queue_id, attempt, torrent_data,
                   blocked_files, calls>>

\* what the request GET /api/v3/queue can come to: a listing, no connection or
\* a timeout, an HTTP error status, a body that is not the expected JSON
QueueBackendReplies == {"ok", "connection_error", "http_error", "malformed_body"}

\* the failure of the request is raised to the caller
get_queue_Raises(reply, live) ==
    IF reply = "ok"
    THEN [fault |-> FALSE, records |-> live]
    ELSE [fault |-> TRUE, records |-> <<>>]

\* SonarrAPI.get_queue: the records of the live queue, [] on any exception
get_queue(reply, live) ==
    IF reply = "ok"
    THEN [fault |-> FALSE, records |-> live]
    ELSE [fault |-> FALSE, records |-> <<>>]

\* line 100: queue_id = self._get_queue_id(download_id)
GetQueueId ==
    /\ pc = "get_queue_id"
    /\ \E reply \in QueueBackendReplies :
         LET listed == get_queue(reply, queue)
             queue_items == listed.records
             found == IF listed.fault
                      THEN [fault |-> TRUE, value |-> None,
                            description |-> "request failed"]
                      ELSE get_queue_id(queue_items, download_id)
         IN  /\ calls' = Append(calls,
                     Call("get_queue", [failed |-> reply # "ok"], queue_items))
             /\ IF found.fault
                THEN /\ RaiseToBoundary(found.description)
                     /\ UNCHANGED queue_id
                ELSE /\ queue_id' = found.value
                     /\ pc' = "wait"
                     /\ UNCHANGED results
    /\ UNCHANGED <<outer_vars, extension_checker, payload, action, queue, history, attempt, torrent_data, blocked_files>>

\* exhausted retries reported as a fault
ManifestUnavailable_AsError ==
    Plain("error", Msg("Could not retrieve torrent data", 0, ""))

\* lines 109-114: the result when _wait_for_torrent returned None
ManifestUnavailable ==
    Plain("warning", Msg("Could not retrieve torrent data", 0, ""))

\* one iteration of the loop of _wait_for_torrent, and lines 109-114 when the
\* loop runs out
WaitAttempt ==
    /\ pc = "wait"
    /\ attempt < max_retries
    /\ \E reply \in manifest_replies :
         /\ calls' = calls \o << Call("sleep", wait_time(attempt), NoArg),
                                 Call("get_torrent_files", download_id, reply) >>
         /\ IF Usable(reply)
            THEN /\ torrent_data' = reply
                 /\ pc' = "check_files"
                 /\ UNCHANGED <<attempt, results>>
            ELSE /\ attempt' = attempt + 1
                 /\ UNCHANGED torrent_data
                 /\ IF attempt + 1 < max_retries
                    THEN UNCHANGED <<pc, results>>
                    ELSE Return(ManifestUnavailable)
    /\ UNCHANGED <<outer_vars, extension_checker, payload, action, queue, history, queue_id, blocked_files>>

\* a single blocked file is let through
HasBlocked_Several(found) == Len(found) > 1

\* the removal branch is taken whatever the matcher found
HasBlocked_Always(found) == TRUE

\* line 122: `if blocked_files:`
HasBlocked(found) == found # <<>>

\* lines 117-133 and 214-219: match, then choose the removal path
CheckFiles ==
    /\ pc = "check_files"
    /\ LET found == check_files(blocked_extensions, torrent_data.files)
       IN  /\ blocked_files' = found
           /\ IF HasBlocked(found)
              THEN /\ pc' = IF QueueIdCaptured(queue_id)
                            THEN "remove_from_queue" ELSE "remove_torrent"
                   /\ UNCHANGED results
              ELSE Return(Plain("clean", Msg("No blocked extensions found", 0, "")))
    /\ UNCHANGED <<outer_vars, extension_checker, payload, action, queue, history, queue_id, attempt, torrent_data, calls>>

\* remove_from_queue called without the blocklist flag
RemoveFromQueueCalls_NoBlocklist(qid, blocklist, success) ==
    << Call("remove_from_queue",
            [queue_id |-> qid, remove_from_client |-> TRUE, blocklist |-> FALSE],
            success) >>

\* the calls SonarrAPI.remove_from_queue makes
RemoveFromQueueCalls(qid, blocklist, success) ==
    << Call("remove_from_queue",
            [queue_id |-> qid, remove_from_client |-> TRUE, blocklist |-> blocklist],
            success) >>
    \o IF success /\ blocklist
       THEN << Call("sleep", verify_delay, NoArg), Call("get_blocklist", NoArg, NoArg) >>
       ELSE <<>>

\* the queue is looked up again at the removal step
QueueIdForRemoval_Requery ==
    LET found == get_queue_id(queue, download_id)
    IN  IF found.fault \/ ~Truthy(found.value) THEN Num(-1) ELSE found.value

\* the identifier of whatever entry heads Sonarr's queue
QueueIdForRemoval_FirstEntry ==
    IF queue # <<>> THEN Num(queue[1].id) ELSE queue_id

\* line 138: the identifier handed to remove_from_queue is the local captured
\* at line 100
QueueIdForRemoval == queue_id

\* the direct removal is attempted whatever the queue removal returned
NeedsClientRemoval_Always(removed_from_queue) == TRUE

\* the direct removal is never attempted after a queue removal
NeedsClientRemoval_Never(removed_from_queue) == FALSE

\* line 152: `if not removed_from_queue:`
NeedsClientRemoval(removed_from_queue) == ~removed_from_queue

\* lines 133-147 and 204-213: removal through the Sonarr queue
RemoveFromQueue ==
    /\ pc = "remove_from_queue"
    /\ \E success \in BOOLEAN :
         LET blocklist == BlocklistPolicy(action)
             removed_from_queue == success
         IN  /\ calls' = calls \o RemoveFromQueueCalls(QueueIdForRemoval, blocklist, success)
             /\ IF ~NeedsClientRemoval(removed_from_queue)
                THEN Return(Result("removed",
                                   Msg("Removed download with blocked file(s)",
                                       Len(blocked_files), ""),
                                   {"status", "message", "blocked_files", "blocklisted"},
                                   blocked_files, "", BlocklistPolicy(action)))
                ELSE pc' = "remove_torrent" /\ UNCHANGED results
    /\ UNCHANGED <<outer_vars, extension_checker, payload, action, queue, history, queue_id, attempt, torrent_data,
                   blocked_files>>

\* the result of the direct removal leaves the match set out
RemovedFromClient_NoFiles(blocklisted) ==
    Result("removed",
           Msg("Removed download with blocked file(s) directly from client",
               Len(blocked_files), ""),
           {"status", "message", "blocked_files", "removed_from", "blocklisted"},
           <<>>, "download_client", blocklisted)

\* lines 185-191: the result of a direct removal
RemovedFromClient(blocklisted) ==
    Result("removed",
           Msg("Removed download with blocked file(s) directly from client",
               Len(blocked_files), ""),
           {"status", "message", "blocked_files", "removed_from", "blocklisted"},
           blocked_files, "download_client", blocklisted)

\* the reply of remove_torrent is not looked at
AfterClientRemoval_IgnoresFailure(client_success) ==
    IF BlocklistPolicy(action)
    THEN pc' = "blocklist_via_history" /\ UNCHANGED results
    ELSE Return(RemovedFromClient(FALSE))

\* the history is consulted whatever the configured action
AfterClientRemoval_AlwaysBlocklists(client_success) ==
    IF ~client_success
    THEN Return(Plain("error", Msg("Failed to remove from download client", 0, "")))
    ELSE pc' = "blocklist_via_history" /\ UNCHANGED results

\* lines 156-164 and 185-197: what follows the reply of remove_torrent
AfterClientRemoval(client_success) ==
    IF ~client_success
    THEN Return(Plain("error", Msg("Failed to remove from download client", 0, "")))
    ELSE IF BlocklistPolicy(action)
         THEN pc' = "blocklist_via_history" /\ UNCHANGED results
         ELSE Return(RemovedFromClient(FALSE))

\* lines 152-155: direct removal from the download client
RemoveFromClient ==
    /\ pc = "remove_torrent"
    /\ \E client_success \in BOOLEAN :
         /\ calls' = Append(calls,
                Call("remove_torrent",
                     [download_id |-> download_id, delete_files |-> TRUE],
                     client_success))
         /\ AfterClientRemoval(client_success)
    /\ UNCHANGED <<outer_vars, extension_checker, payload, action, queue, history, queue_id, attempt, torrent_data,
                   blocked_files>>

\* lines 165-191 and 198-203: blocklisting through the history.  SonarrAPI
\* defines neither get_history nor blocklist_by_history_id, so the attribute
\* lookup at line 166 raises AttributeError into the handler at line 198.
BlocklistViaHistory ==
    /\ pc = "blocklist_via_history"
    /\ IF "get_history" \notin SonarrAPIMethods
       THEN /\ RaiseInClientRemoval("'SonarrAPI' object has no attribute 'get_history'")
            /\ UNCHANGED calls
       ELSE \E ok \in BOOLEAN :
              LET listed == Append(calls, Call("get_history", download_id, history))
                  grabbed_item == FirstGrabbed(history)
              IN  IF grabbed_item = None
                  THEN calls' = listed /\ Return(RemovedFromClient(FALSE))
                  ELSE IF "blocklist_by_history_id" \notin SonarrAPIMethods
                       THEN /\ calls' = listed
                            /\ RaiseInClientRemoval(
                                 "'SonarrAPI' object has no attribute 'blocklist_by_history_id'")
                       ELSE /\ calls' = Append(listed,
                                   Call("blocklist_by_history_id", grabbed_item, ok))
                            /\ Return(RemovedFromClient(ok))
    /\ UNCHANGED <<outer_vars, extension_checker, payload, action, queue, history, queue_id, attempt, torrent_data,
                   blocked_files>>

\* Sonarr finishes its own processing of the download and drops its entry
\* from the queue while the pipeline is running
SonarrDropsEntry ==
    /\ pc \notin {"start", "done"}
    /\ \E i \in 1..Len(queue) :
         /\ queue[i].downloadId.t = "str"
         /\ Lower(queue[i].downloadId.s) = Lower(download_id.s)
         /\ queue' = SubSeq(queue, 1, i - 1) \o SubSeq(queue, i + 1, Len(queue))
    /\ UNCHANGED <<outer_vars, extension_checker, payload, action, history, pc, queue_id, attempt, torrent_data,
                   blocked_files, calls, results>>

\* ---------------------------------------------------- the matcher on its own
\* blocked-extension lists as a configuration file can give them
ExtensionConfigs ==
    { ConfiguredExtensions,
      << <<".","E","X","E">>, <<"e","x","e">> >>,
      << <<"M","k","v">> >>,
      << <<".","e","x","e">> >>,
      <<>> }

\* file paths as a download client can report them
MatcherPaths ==
    { PathMkv, PathExe, PathBat,
      <<"s",".","e","x","e">>,
      <<"d","/",".","e","x","e">>,
      <<".","e","x","e">>,
      <<"d",".","e","x","e","/","f">>,
      <<"a",".","b",".","e","x","e">> }

\* sequences of length at most n over the set S
ListsUpTo(S, n) == UNION {[1..k -> S] : k \in 0..n}

\* a WebhookHandler about to build its ExtensionChecker, and the manifest of
\* one run that has reached the match
MatcherInit ==
    /\ payload = [downloadId |-> Str(IdMixed)]
    /\ action = ActRemove
    /\ queue = <<>>
    /\ history = <<>>
    /\ pc = "construct"
    /\ queue_id = None
    /\ attempt = 0
    /\ torrent_data \in {Manifest(fs) : fs \in ListsUpTo(MatcherPaths, MaxFiles)}
    /\ blocked_files = <<>>
    /\ calls = <<>>
    /\ results = <<>>
    /\ \E configured \in ExtensionConfigs :
          extension_checker = [configured |-> configured, blocked_extensions |-> <<>>]
    /\ OuterIdle

\* ExtensionChecker.__init__
ExtensionCheckerInit ==
    /\ pc = "construct"
    /\ extension_checker' = ExtensionChecker(extension_checker.configured)
    /\ pc' = "check_files"
    /\ UNCHANGED <<payload, action, queue, history, queue_id, attempt, torrent_data,
                   blocked_files, calls, results, outer_vars>>

MatcherNext == ExtensionCheckerInit \/ CheckFiles

MatcherSpec == MatcherInit /\ [][MatcherNext]_vars

\* ----------------------------------------------- the queue lookup on its own
\* queue records with download ids that are equal to the notification's up to
\* letter case, a prefix of it, an extension of it, missing, null or ill-typed
LookupRecords ==
    QueueRecords \cup
    { [id |-> 7, downloadId |-> Str(<<"a">>)],
      [id |-> 8, downloadId |-> Str(<<"a","b","c">>)],
      [id |-> 5, downloadId |-> Missing],
      [id |-> 6, downloadId |-> None] }

\* a run of process_grab_event in front of any such queue
LookupInit ==
    /\ payload \in [downloadId : PayloadDownloadIds]
    /\ action = ActRemove
    /\ queue \in InjSeqs(LookupRecords, MaxQueue)
    /\ history = <<>>
    /\ pc = "start"
    /\ queue_id = None
    /\ attempt = 0
    /\ torrent_data = Absent
    /\ blocked_files = <<>>
    /\ calls = <<>>
    /\ results = <<>>
    /\ extension_checker = ExtensionChecker(ConfiguredExtensions)
    /\ OuterIdle

LookupNext == Validate \/ GetQueueId

LookupSpec == LookupInit /\ [][LookupNext]_vars

\* the steps of process_grab_event
Pipeline ==
    \/ Validate
    \/ GetQueueId
    \/ WaitAttempt
    \/ CheckFiles
    \/ RemoveFromQueue
    \/ RemoveFromClient
    \/ BlocklistViaHistory

Next == Pipeline \/ SonarrDropsEntry

\* ------------------------------------------------------------ the endpoint
EventGrab == <<"G","r","a","b">>

\* payload['eventType'] as Sonarr or anyone else can send it
EventTypes ==
    { Str(EventGrab), Str(<<"g","r","a","b">>),
      Str(<<"D","o","w","n","l","o","a","d">>), Missing }

\* what request.get_json() makes of the body: it raises, or it returns a value
\* that is falsy, one that is not a dict, or a non-empty dict
BodyKinds == {"unparsable", "empty", "not_dict", "dict"}

Response(code, body) == [code |-> code, body |-> body]

\* config.download_client.type: the three supported names (in any letter
\* case), another client's name, an empty string, a YAML null
ClientTypes ==
    { Str(QBittorrent), Str(<<"D","E","L","U","G","E">>), Str(Transmission), Str(Deluge),
      Str(<<"r","t","o","r","r","e","n","t">>), Str(<<>>), None }

NoClient == <<>>

\* an unknown type leaves the handler without a download client
init_download_client_Lenient(type) ==
    IF type.t = "str" /\ Lower(type.s) \in {QBittorrent, Transmission, Deluge}
    THEN [fault |-> FALSE, client |-> Lower(type.s)]
    ELSE [fault |-> FALSE, client |-> NoClient]

\* WebhookHandler._init_download_client: the client, or the exception raised
init_download_client(type) ==
    IF type.t # "str"
    THEN [fault |-> TRUE, client |-> NoClient]      \* None has no .lower()
    ELSE LET client_type == Lower(type.s)
         IN  IF client_type \in {QBittorrent, Transmission, Deluge}
             THEN [fault |-> FALSE, client |-> client_type]
             ELSE [fault |-> TRUE, client |-> NoClient]   \* ValueError

\* the module is being imported: the configuration is loaded, the handler is
\* not built yet, and a request is waiting to be served
WebhookInit ==
    /\ payload \in [eventType : EventTypes, downloadId : PayloadDownloadIds]
    /\ action \in Actions
    /\ queue \in {<<>>, << [id |-> 42, downloadId |-> Str(IdUpper)] >>}
    /\ history = <<>>
    /\ pc = "startup"
    /\ queue_id = None
    /\ attempt = 0
    /\ torrent_data = Absent
    /\ blocked_files = <<>>
    /\ calls = <<>>
    /\ results = <<>>
    /\ extension_checker = ExtensionChecker(ConfiguredExtensions)
    /\ http \in [body : BodyKinds, responses : {<<>>}]
    /\ stats_calls = <<>>
    /\ download_client \in [type : ClientTypes, client : {NoClient}]
    /\ ClientIdle
    /\ StatsIdle
    /\ parked = NoRun
    /\ manifest_replies = ManifestReplies

pipeline_vars == <<payload, action, queue, history, queue_id, attempt, torrent_data,
                  blocked_files, calls, results, extension_checker>>

\* main.py line 38: webhook_handler = WebhookHandler(config, logger); an
\* exception here ends the import, and the application never serves
Startup ==
    /\ pc = "startup"
    /\ LET built == init_download_client(download_client.type)
       IN  IF built.fault
           THEN pc' = "crashed" /\ UNCHANGED download_client
           ELSE /\ pc' = "request"
                /\ download_client' = [download_client EXCEPT !.client = built.client]
    /\ UNCHANGED <<pipeline_vars, http, stats_calls, client_vars, stats_vars, parked, manifest_replies>>

\* any spelling of grab starts the pipeline
IsGrab_AnyCase(event_type) ==
    event_type.t = "str" /\ Lower(event_type.s) = Lower(EventGrab)

\* line 68: `if event_type == 'Grab':`
IsGrab(event_type) == event_type = Str(EventGrab)

\* lines 50-68 and 79-86: handle_webhook up to the call of process_grab_event
HandleWebhook ==
    /\ pc = "request"
    /\ CASE http.body = "unparsable" ->
              /\ stats_calls' = Append(stats_calls, [op |-> "increment_errors", files |-> <<>>])
              /\ http' = [http EXCEPT !.responses = Append(@, Response(500, "error"))]
              /\ pc' = "responded"
              /\ UNCHANGED download_client
         [] http.body \in {"empty", "not_dict"} ->
              /\ http' = [http EXCEPT !.responses = Append(@, Response(400, "error"))]
              /\ pc' = "responded"
              /\ UNCHANGED <<stats_calls, download_client>>
         [] http.body = "dict" ->
              LET event_type == Get(payload.eventType, Str(<<"u","n","k","n","o","w","n">>))
              IN  IF IsGrab(event_type)
                  THEN pc' = "start" /\ UNCHANGED outer_vars
                  ELSE /\ http' = [http EXCEPT
                                      !.responses = Append(@, Response(200, "ignored"))]
                       /\ pc' = "responded"
                       /\ UNCHANGED <<stats_calls, download_client>>
    /\ UNCHANGED <<pipeline_vars, client_vars, stats_vars, parked, manifest_replies>>

\* every result that is not clean or removed counts as an error
Respond_ErrorsCounted ==
    /\ pc = "done"
    /\ LET result == results[Len(results)]
       IN  /\ stats_calls' = stats_calls \o
                  (CASE result.status = "removed" ->
                            << [op |-> "increment_blocked", files |-> <<>>],
                               [op |-> "add_blocked_file", files |-> result.blocked_files] >>
                     [] result.status = "clean" ->
                            << [op |-> "increment_processed", files |-> <<>>] >>
                     [] OTHER -> << [op |-> "increment_errors", files |-> <<>>] >>)
           /\ http' = [http EXCEPT !.responses = Append(@, Response(200, result.status))]
    /\ pc' = "responded"
    /\ UNCHANGED <<pipeline_vars, download_client, client_vars, stats_vars, parked, manifest_replies>>

\* lines 71-78: the statistics are updated and the result is sent
Respond ==
    /\ pc = "done"
    /\ LET result == results[Len(results)]
       IN  /\ stats_calls' = stats_calls \o
                  (CASE result.status = "removed" ->
                            << [op |-> "increment_blocked", files |-> <<>>],
                               [op |-> "add_blocked_file", files |-> result.blocked_files] >>
                     [] result.status = "clean" ->
                            << [op |-> "increment_processed", files |-> <<>>] >>
                     [] OTHER -> <<>>)
           /\ http' = [http EXCEPT !.responses = Append(@, Response(200, result.status))]
    /\ pc' = "responded"
    /\ UNCHANGED <<pipeline_vars, download_client, client_vars, stats_vars, parked, manifest_replies>>

WebhookNext == Startup \/ HandleWebhook \/ Pipeline \/ Respond

WebhookSpec == WebhookInit /\ [][WebhookNext]_vars

\* ------------------------------------------------------ the download clients
\* the instance fields _authenticated (_initialized for Transmission) and
\* session_id, as construction or earlier calls have left them
ClientInit ==
    /\ payload = [downloadId |-> Str(IdMixed)]
    /\ action = ActRemove
    /\ queue = <<>>
    /\ history = <<>>
    /\ pc = "client"
    /\ queue_id = None
    /\ attempt = 0
    /\ torrent_data = Absent
    /\ blocked_files = <<>>
    /\ calls = <<>>
    /\ results = <<>>
    /\ extension_checker = ExtensionChecker(ConfiguredExtensions)
    /\ http = [body |-> "dict", responses |-> <<>>]
    /\ stats_calls = <<>>
    /\ \E c \in {QBittorrent, Transmission, Deluge} :
          download_client = [type |-> Str(c), client |-> c]
    /\ session \in [authenticated : BOOLEAN, session_id : BOOLEAN]
    /\ download_client.client # Transmission => ~session.session_id
    /\ torrent \in TorrentStates
    /\ tasks = [t \in Tasks |-> IdleTask]
    /\ StatsIdle
    /\ parked = NoRun
    /\ manifest_replies = ManifestReplies

non_client_vars == <<pipeline_vars, pc, http, stats_calls, download_client, torrent, stats_vars, parked, manifest_replies>>

\* max_retries of the client's request loop
MaxRetries(client) ==
    IF client = QBittorrent THEN qbittorrent_max_retries ELSE deluge_max_retries

\* the loop goes on whatever the attempt number
AttemptsRemain_Always(client, a) == TRUE

\* `attempt < max_retries`
AttemptsRemain(client, a) == a < MaxRetries(client)

\* the exception leaves the capability call
OnException_Raises(op) == "raised"

\* the `except Exception` of get_torrent_files and of remove_torrent
OnException(op) == IF op = "get_torrent_files" THEN "None" ELSE "False"

\* the value the call hands back after the reply `cause`, and the end of the call
Returns(t, value, cause) ==
    tasks' = [tasks EXCEPT ![t].ret = value, ![t].pc = "returned",
                           ![t].returns = @ + 1, ![t].cause = cause]

\* an exception inside the capability call, after the reply `cause`
Raises(t, cause) == Returns(t, OnException(tasks[t].op), cause)

\* a thread enters get_torrent_files or remove_torrent
CallStart(t) ==
    /\ tasks[t].pc = "idle"
    /\ \E op \in {"get_torrent_files", "remove_torrent"} :
         tasks' = [tasks EXCEPT ![t].op = op,
                      ![t].pc = CASE download_client.client = QBittorrent -> "ensure"
                                  [] download_client.client = Deluge -> "outer_ensure"
                                  [] download_client.client = Transmission -> "init"]
    /\ UNCHANGED <<session, non_client_vars>>

\* _ensure_authenticated of QBittorrentClient and DelugeClient: nothing when
\* the instance is marked authenticated, else the login request is sent
EnsureAuthenticated(t) ==
    /\ tasks[t].pc \in {"outer_ensure", "ensure"}
    /\ LET next == IF tasks[t].pc = "outer_ensure" THEN "ensure" ELSE "send"
       IN  IF session.authenticated
           THEN tasks' = [tasks EXCEPT ![t].pc = next]
           ELSE tasks' = [tasks EXCEPT ![t].pc = "login", ![t].resume = next,
                                       ![t].logins = @ + 1]
    /\ UNCHANGED <<session, non_client_vars>>

\* the reply to the login request: accepted, refused, or no reply at all
LoginReply(t) ==
    /\ tasks[t].pc = "login"
    /\ \E reply \in {"ok", "refused", "error"} :
         IF reply = "ok"
         THEN /\ session' = [session EXCEPT !.authenticated = TRUE]
              /\ tasks' = [tasks EXCEPT ![t].pc = tasks[t].resume]
         ELSE /\ Raises(t, reply)
              /\ UNCHANGED session
    /\ UNCHANGED non_client_vars

\* session.get / session.post of the data request
SendRequest(t) ==
    /\ tasks[t].pc = "send"
    /\ tasks' = [tasks EXCEPT ![t].pc = "await", ![t].requests = @ + 1]
    /\ UNCHANGED <<session, non_client_vars>>

\* the session is taken as expired and the loop goes to its next attempt
Retry(t) ==
    /\ session' = [session EXCEPT !.authenticated = FALSE]
    /\ tasks' = [tasks EXCEPT ![t].pc = "ensure", ![t].attempt = @ + 1]

\* the manifest for a torrent the backend does not know is an empty one
ManifestOf_UnknownIsEmpty(state) ==
    CASE state = "unknown" -> "empty"
      [] state = "unpopulated" -> "empty"
      [] state = "files" -> "files"

\* what get_torrent_files makes of the reply the backend gives for a torrent
\* it does not know (404 from qBittorrent, an empty torrents list from
\* Transmission, a null result from Deluge), knows without files, or knows
ManifestOf(state) ==
    CASE state = "unknown" -> "None"
      [] state = "unpopulated" -> "empty"
      [] state = "files" -> "files"

\* QBittorrentClient: the reply to a data request
QBittorrentReply(t) ==
    /\ download_client.client = QBittorrent
    /\ tasks[t].pc = "await"
    /\ \E reply \in {"ok", "403", "http_error", "error"}
                     \cup (IF tasks[t].op = "get_torrent_files" THEN {"malformed"} ELSE {}) :
         CASE reply \in {"403", "error"} ->
                  IF AttemptsRemain(QBittorrent, tasks[t].attempt)
                  THEN Retry(t)
                  ELSE Raises(t, reply) /\ UNCHANGED session
           [] reply = "http_error" -> Raises(t, reply) /\ UNCHANGED session
           [] reply = "malformed" -> Raises(t, reply) /\ UNCHANGED session
           [] reply = "ok" ->
                  /\ IF tasks[t].op = "get_torrent_files"
                     THEN IF ManifestOf(torrent) = "None"
                          THEN Raises(t, reply)       \* 404, raise_for_status
                          ELSE Returns(t, ManifestOf(torrent), reply)
                     ELSE Returns(t, "True", reply)
                  /\ UNCHANGED session
    /\ UNCHANGED non_client_vars

\* _rpc_call of DelugeClient hands None to the capability call
DelugeGaveNone(t, reply) ==
    Returns(t, IF tasks[t].op = "get_torrent_files" THEN "None" ELSE "False", reply)

\* DelugeClient: the reply to a data request
DelugeReply(t) ==
    /\ download_client.client = Deluge
    /\ tasks[t].pc = "await"
    /\ \E reply \in {"ok", "401", "http_error", "error", "auth_error", "malformed"} :
         CASE reply \in {"401", "http_error", "error"} ->
                  IF AttemptsRemain(Deluge, tasks[t].attempt)
                  THEN Retry(t)
                  ELSE DelugeGaveNone(t, reply) /\ UNCHANGED session
           [] reply = "auth_error" ->
                  IF AttemptsRemain(Deluge, tasks[t].attempt)
                  THEN Retry(t)
                  ELSE /\ IF tasks[t].op = "get_torrent_files"
                          THEN Raises(t, reply) ELSE Returns(t, "False", reply)
                       /\ UNCHANGED session
           [] reply = "malformed" ->
                  \* response.json() raises a RequestException or a ValueError,
                  \* by the version of requests
                  \E as_request_exception \in BOOLEAN :
                     IF as_request_exception
                     THEN IF AttemptsRemain(Deluge, tasks[t].attempt)
                          THEN Retry(t)
                          ELSE DelugeGaveNone(t, reply) /\ UNCHANGED session
                     ELSE Raises(t, reply) /\ UNCHANGED session
           [] reply = "ok" ->
                  /\ IF tasks[t].op = "get_torrent_files"
                     THEN IF ManifestOf(torrent) = "None"
                          THEN Raises(t, reply)       \* None has no .values()
                          ELSE Returns(t, ManifestOf(torrent), reply)
                     ELSE Returns(t, IF torrent = "unknown" THEN "False" ELSE "True", reply)
                  /\ UNCHANGED session
    /\ UNCHANGED non_client_vars

\* TransmissionClient._ensure_initialized, up to the session-id request
TransmissionInit(t) ==
    /\ tasks[t].pc = "init"
    /\ IF session.authenticated
       THEN tasks' = [tasks EXCEPT ![t].pc = "rpc"]
       ELSE tasks' = [tasks EXCEPT ![t].pc = "session_id", ![t].resume = "rpc",
                                   ![t].logins = @ + 1]
    /\ UNCHANGED <<session, non_client_vars>>

\* TransmissionClient._rpc_call, up to its request
TransmissionRpcCall(t) ==
    /\ tasks[t].pc = "rpc"
    /\ IF session.session_id
       THEN tasks' = [tasks EXCEPT ![t].pc = "send"]
       ELSE tasks' = [tasks EXCEPT ![t].pc = "session_id", ![t].resume = "send",
                                   ![t].logins = @ + 1]
    /\ UNCHANGED <<session, non_client_vars>>

\* the reply to _get_session_id: 409 with the session id, or anything else
SessionIdReply(t) ==
    /\ tasks[t].pc = "session_id"
    /\ \E reply \in {"409", "other", "error"} :
         session' = [authenticated |->
                        session.authenticated \/ tasks[t].resume = "rpc",
                     session_id |-> session.session_id \/ reply = "409"]
    /\ tasks' = [tasks EXCEPT ![t].pc = tasks[t].resume]
    /\ UNCHANGED non_client_vars

\* TransmissionClient: the reply to the request of _rpc_call
TransmissionReply(t) ==
    /\ download_client.client = Transmission
    /\ tasks[t].pc = "await"
    /\ \E reply \in {"ok", "409", "http_error", "error", "malformed"} :
         CASE reply = "409" /\ tasks[t].requests < 2 ->
                  tasks' = [tasks EXCEPT ![t].pc = "session_id", ![t].resume = "send",
                                         ![t].logins = @ + 1]
           [] reply = "ok" ->
                  IF tasks[t].op = "get_torrent_files"
                  THEN Returns(t, ManifestOf(torrent), reply)
                  ELSE Returns(t, "True", reply)
           [] OTHER ->
                  Returns(t, IF tasks[t].op = "get_torrent_files" THEN "None" ELSE "False",
                             reply)
    /\ UNCHANGED <<session, non_client_vars>>

ClientStep(t) ==
    \/ CallStart(t)
    \/ EnsureAuthenticated(t)
    \/ LoginReply(t)
    \/ SendRequest(t)
    \/ QBittorrentReply(t)
    \/ DelugeReply(t)
    \/ TransmissionInit(t)
    \/ TransmissionRpcCall(t)
    \/ SessionIdReply(t)
    \/ TransmissionReply(t)

ClientNext == \E t \in Tasks : ClientStep(t)

ClientSpec == ClientInit /\ [][ClientNext]_vars

\* every request is answered or times out (timeout=10), and a thread that can
\* take a step takes it
FairClientSpec == ClientSpec /\ \A t \in Tasks : WF_vars(ClientStep(t))

\* ------------------------------------------------------------ the statistics
StatsInit ==
    /\ payload = [downloadId |-> Str(IdMixed)]
    /\ action = ActRemove
    /\ queue = <<>>
    /\ history = <<>>
    /\ pc = "stats"
    /\ queue_id = None
    /\ attempt = 0
    /\ torrent_data = Absent
    /\ blocked_files = <<>>
    /\ calls = <<>>
    /\ results = <<>>
    /\ extension_checker = ExtensionChecker(ConfiguredExtensions)
    /\ http = [body |-> "dict", responses |-> <<>>]
    /\ stats_calls = <<>>
    /\ download_client = [type |-> Str(QBittorrent), client |-> QBittorrent]
    /\ ClientIdle
    /\ callers = [t \in Tasks |-> IdleCaller]
    /\ \E exists \in BOOLEAN :
          stats = [lock |-> "free",
                   counts |-> [k \in StatsKeys |-> 0],
                   file |-> [exists |-> exists, counts |-> [k \in StatsKeys |-> 0]]]
    /\ parked = NoRun
    /\ manifest_replies = ManifestReplies

non_stats_vars == <<pipeline_vars, pc, http, stats_calls, download_client, client_vars, parked, manifest_replies>>

\* a thread calls a method of the Statistics object
StatsCall(t) ==
    /\ callers[t].pc = "idle"
    /\ \E op \in {"increment_processed", "increment_blocked", "increment_errors",
                  "add_blocked_file", "get_stats"} :
       \E files \in (IF op = "add_blocked_file" THEN BlockedFileLists ELSE {<<>>}) :
          callers' = [callers EXCEPT ![t].op = op, ![t].pc = "acquire",
                                     ![t].keys = KeysOf(op, files)]
    /\ UNCHANGED <<stats, non_stats_vars>>

\* the lock is taken whoever holds it
LockFree_Always(lock) == TRUE

\* threading.Lock: free when no thread holds it
LockFree(lock) == lock = "free"

\* `with self.lock:` on entry
Acquire(t) ==
    /\ callers[t].pc = "acquire"
    /\ LockFree(stats.lock)
    /\ stats' = [stats EXCEPT !.lock = t]
    /\ callers' = [callers EXCEPT ![t].pc = IF callers[t].op = "get_stats"
                                            THEN "load" ELSE "read"]
    /\ UNCHANGED non_stats_vars

\* `+= 1`, first half: the counter is read (or the loop is over)
ReadCounter(t) ==
    /\ callers[t].pc = "read"
    /\ IF callers[t].i <= Len(callers[t].keys)
       THEN callers' = [callers EXCEPT ![t].pc = "write",
                                       ![t].read = stats.counts[callers[t].keys[callers[t].i]]]
       ELSE callers' = [callers EXCEPT ![t].pc = "save"]
    /\ UNCHANGED <<stats, non_stats_vars>>

\* `+= 1`, second half: the value read plus one is stored
WriteCounter(t) ==
    /\ callers[t].pc = "write"
    /\ stats' = [stats EXCEPT !.counts[callers[t].keys[callers[t].i]] = callers[t].read + 1]
    /\ callers' = [callers EXCEPT ![t].pc = "read", ![t].i = @ + 1]
    /\ UNCHANGED non_stats_vars

\* _save_stats: the file is replaced by the counters, or the write fails and
\* the exception is swallowed
SaveStats(t) ==
    /\ callers[t].pc = "save"
    /\ \E written \in BOOLEAN :
         stats' = [stats EXCEPT !.file = IF written
                                         THEN [exists |-> TRUE, counts |-> stats.counts]
                                         ELSE @]
    /\ callers' = [callers EXCEPT ![t].pc = "release"]
    /\ UNCHANGED non_stats_vars

\* get_stats: _load_stats puts the file's counters in place of the object's
LoadStats(t) ==
    /\ callers[t].pc = "load"
    /\ stats' = [stats EXCEPT !.counts = IF stats.file.exists THEN stats.file.counts ELSE @]
    /\ callers' = [callers EXCEPT ![t].pc = "release"]
    /\ UNCHANGED non_stats_vars

\* `with self.lock:` on exit
Release(t) ==
    /\ callers[t].pc = "release"
    /\ stats' = [stats EXCEPT !.lock = "free"]
    /\ callers' = [callers EXCEPT ![t].pc = "done"]
    /\ UNCHANGED non_stats_vars

StatsStep(t) ==
    \/ StatsCall(t)
    \/ Acquire(t)
    \/ ReadCounter(t)
    \/ WriteCounter(t)
    \/ SaveStats(t)
    \/ LoadStats(t)
    \/ Release(t)

StatsNext == \E t \in Tasks : StatsStep(t)

StatsSpec == StatsInit /\ [][StatsNext]_vars



\* ------------------------------------------------------- two runs at a time
\* the local variables of the run that is scheduled
RunLocals ==
    [payload |-> payload, pc |-> pc, queue_id |-> queue_id, attempt |-> attempt,
     torrent_data |-> torrent_data, blocked_files |-> blocked_files,
     calls |-> calls, results |-> results]

\* a run that has just entered process_grab_event
NewRun(did) ==
    [payload |-> [downloadId |-> did], pc |-> "start", queue_id |-> None,
     attempt |-> 0, torrent_data |-> Absent, blocked_files |-> <<>>,
     calls |-> <<>>, results |-> <<>>]

IdOther == <<"a","b","c">>

\* two grab notifications for different downloads, both in Sonarr's queue,
\* handled by two threads of the one WebhookHandler
ConcurrentInit ==
    /\ payload = [downloadId |-> Str(IdMixed)]
    /\ parked = NewRun(Str(IdOther))
    /\ manifest_replies = {Absent, Manifest(<<PathExe>>), Manifest(<<PathMkv, PathBat>>),
                           Manifest(<<PathMkv>>)}
    /\ action \in Actions
    /\ queue = << [id |-> 42, downloadId |-> Str(IdUpper)],
                  [id |-> 8, downloadId |-> Str(IdOther)] >>
    /\ history = <<>>
    /\ pc = "start"
    /\ queue_id = None
    /\ attempt = 0
    /\ torrent_data = Absent
    /\ blocked_files = <<>>
    /\ calls = <<>>
    /\ results = <<>>
    /\ extension_checker = ExtensionChecker(ConfiguredExtensions)
    /\ http = [body |-> "dict", responses |-> <<>>]
    /\ stats_calls = <<>>
    /\ download_client = [type |-> Str(QBittorrent), client |-> QBittorrent]
    /\ ClientIdle
    /\ StatsIdle

\* the thread finds the handler's match set where its own should be
Resumed_SharedMatchSet(run) == [run EXCEPT !.blocked_files = blocked_files]

\* what a thread finds when it is scheduled again: its own local variables
Resumed(run) == run

\* the interpreter switches to the other thread
Switch ==
    /\ parked.pc \notin {"none", "done"}
    /\ parked' = RunLocals
    /\ payload' = Resumed(parked).payload
    /\ pc' = Resumed(parked).pc
    /\ queue_id' = Resumed(parked).queue_id
    /\ attempt' = Resumed(parked).attempt
    /\ torrent_data' = Resumed(parked).torrent_data
    /\ blocked_files' = Resumed(parked).blocked_files
    /\ calls' = Resumed(parked).calls
    /\ results' = Resumed(parked).results
    /\ UNCHANGED <<action, queue, history, extension_checker, http, stats_calls,
                   download_client, client_vars, stats_vars, manifest_replies>>

ConcurrentNext == Pipeline \/ Switch

ConcurrentSpec == ConcurrentInit /\ [][ConcurrentNext]_vars

\* ------------------------------------------- a sequence of webhook requests
\* the number of requests the endpoint is followed through
MaxEvents == 2

\* main.py lines 36-41: the handler and the statistics sink are built once;
\* the first request is at the door
IngressInit ==
    /\ payload \in [eventType : EventTypes, downloadId : PayloadDownloadIds]
    /\ action \in Actions
    /\ queue \in {<<>>, << [id |-> 42, downloadId |-> Str(IdUpper)] >>}
    /\ history = <<>>
    /\ pc = "request"
    /\ queue_id = None
    /\ attempt = 0
    /\ torrent_data = Absent
    /\ blocked_files = <<>>
    /\ calls = <<>>
    /\ results = <<>>
    /\ extension_checker = ExtensionChecker(ConfiguredExtensions)
    /\ http \in [body : BodyKinds, responses : {<<>>}]
    /\ stats_calls = <<>>
    /\ download_client = [type |-> Str(QBittorrent), client |-> QBittorrent]
    /\ ClientIdle
    /\ StatsIdle
    /\ parked = NoRun
    /\ manifest_replies = {Absent, Manifest(<<PathExe>>), Manifest(<<PathMkv, PathBat>>),
                           Manifest(<<PathMkv>>)}

\* lines 43-45: the route calls handle_webhook once more for the next POST;
\* the locals of the earlier call are gone, the sink and the handler stay
NextEvent ==
    /\ pc = "responded"
    /\ Len(http.responses) < MaxEvents
    /\ payload' \in [eventType : EventTypes, downloadId : PayloadDownloadIds]
    /\ \E body \in BodyKinds : http' = [http EXCEPT !.body = body]
    /\ queue_id' = None
    /\ attempt' = 0
    /\ torrent_data' = Absent
    /\ blocked_files' = <<>>
    /\ calls' = <<>>
    /\ pc' = "request"
    /\ UNCHANGED <<action, queue, history, results, extension_checker, stats_calls,
                   download_client, client_vars, stats_vars, parked, manifest_replies>>

IngressNext == HandleWebhook \/ Pipeline \/ Respond \/ NextEvent

IngressSpec == IngressInit /\ [][IngressNext]_vars

Spec == Init /\ [][Next]_vars

\* the task that runs process_grab_event is scheduled until it returns
FairSpec == Spec /\ WF_vars(Pipeline)

TypeOK ==
    /\ pc \in {"client", "stats", "startup", "crashed", "request", "responded", "construct", "start", "get_queue_id", "wait", "check_files",
               "remove_from_queue", "remove_torrent", "blocklist_via_history", "done"}
    /\ attempt \in 0..max_retries
    /\ Len(extension_checker.blocked_extensions) \in {0, Len(extension_checker.configured)}
    /\ Len(results) <= 1


\* ------------------------------------------------------------ observations
CallsOf(op) == SelectSeq(calls, LAMBDA c : c.op = op)
QueueListings == CallsOf("get_queue")
ManifestCalls == CallsOf("get_torrent_files")
QueueRemovals == CallsOf("remove_from_queue")
ClientRemovals == CallsOf("remove_torrent")

Statuses == {"clean", "removed", "warning", "error"}

\* a reply that is present and has at least one file
PresentNonEmpty(reply) == reply.present /\ reply.files # <<>>

\* the configured action asks for blocklisting
PolicyFlag == action = ActRemoveAndBlocklist

\* the paths of a manifest whose extension is .exe or .bat in any letter case
MatchSetOf(files) == check_files(<< <<".","e","x","e">>, <<".","b","a","t">> >>, files)

AfterQueueStep == pc \in {"remove_torrent", "blocklist_via_history", "done"}

\* ------------------------------------------------------------------ claims

\* C1: every run of process_grab_event ends, and it ends with exactly one
\* result whose status is clean, removed, warning or error; a run is over
\* exactly when that one result has been returned.
C1_ExactlyOneTerminalResult ==
    /\ [](/\ Len(results) <= 1
          /\ (pc = "done") <=> (Len(results) = 1)
          /\ \A i \in 1..Len(results) : results[i].status \in Statuses)
    /\ <>(pc = "done")

C1_Witness ==
    /\ pc = "done"
    /\ Len(results) = 1
    /\ results[1].status = "removed"
    /\ Len(ManifestCalls) = 3

\* C2 as stated: the direct client remove is invoked only when no queue
\* identifier was captured, so a run never has both a removeEntry and a direct
\* remove.
C2_Original ==
    /\ Len(ClientRemovals) > 0 => ~QueueIdCaptured(queue_id)
    /\ ~(Len(QueueRemovals) > 0 /\ Len(ClientRemovals) > 0)

\* C2 amended: the direct client remove is invoked only when no queue
\* identifier was captured or after removeEntry reported failure; it never
\* follows a successful removeEntry, and each of the two is invoked at most once.
C2_DirectRemoveOnlyWithoutQueueRemoval ==
    /\ Len(QueueRemovals) <= 1
    /\ Len(ClientRemovals) <= 1
    /\ Len(QueueRemovals) > 0 => QueueIdCaptured(queue_id)
    /\ Len(ClientRemovals) > 0 =>
          \/ ~QueueIdCaptured(queue_id) /\ Len(QueueRemovals) = 0
          \/ Len(QueueRemovals) = 1 /\ ~QueueRemovals[1].ret
    /\ \A i, j \in 1..Len(calls) :
          (calls[i].op = "remove_from_queue" /\ calls[j].op = "remove_torrent") => i < j

C2_Witness ==
    /\ pc = "done"
    /\ Len(QueueRemovals) = 1
    /\ ~QueueRemovals[1].ret
    /\ Len(ClientRemovals) = 1

\* C3 as stated: a failed removeEntry ends the run with error.
C3_Original ==
    (pc = "done" /\ Len(QueueRemovals) = 1 /\ ~QueueRemovals[1].ret)
        => results[1].status = "error"

\* C3 amended: after a failed removeEntry the pipeline calls the direct client
\* remove(downloadId, deleteFiles=true); the run ends with error (failed to
\* remove from download client) if that remove fails, with error if the
\* fallback's blocklist step faults, and with removed otherwise.
C3_QueueFailureFallsBack ==
    (pc = "done" /\ Len(QueueRemovals) = 1 /\ ~QueueRemovals[1].ret) =>
        /\ Len(ClientRemovals) = 1
        /\ ClientRemovals[1].arg = [download_id |-> payload.downloadId, delete_files |-> TRUE]
        /\ results[1].status \in {"removed", "error"}
        /\ ~ClientRemovals[1].ret =>
              /\ results[1].status = "error"
              /\ results[1].message.text = "Failed to remove from download client"
        /\ (ClientRemovals[1].ret /\ results[1].status = "error") =>
              results[1].message.text = "Error removing from download client: "
        /\ (ClientRemovals[1].ret /\ ~PolicyFlag) => results[1].status = "removed"

C3_Witness ==
    /\ pc = "done"
    /\ Len(QueueRemovals) = 1
    /\ ~QueueRemovals[1].ret
    /\ Len(ClientRemovals) = 1
    /\ ClientRemovals[1].ret
    /\ results[1].status = "removed"

\* C4: with a captured queue identifier and a non-empty match set, removeEntry
\* is called once with the captured identifier, removeFromClient=true and
\* blocklist equal to the policy flag; when it succeeds the result is removed
\* with the match set as blocked_files and the policy flag as blocklisted.
C4_QueueRemoval ==
    (AfterQueueStep /\ QueueIdCaptured(queue_id) /\ blocked_files # <<>>) =>
        /\ Len(QueueRemovals) = 1
        /\ QueueRemovals[1].arg =
              [queue_id |-> queue_id, remove_from_client |-> TRUE, blocklist |-> PolicyFlag]
        /\ QueueRemovals[1].ret =>
              /\ pc = "done"
              /\ results[1].status = "removed"
              /\ results[1].blocked_files =
                    MatchSetOf(ManifestCalls[Len(ManifestCalls)].ret.files)
              /\ results[1].blocklisted = PolicyFlag

C4_Witness ==
    /\ pc = "done"
    /\ Len(QueueRemovals) = 1
    /\ QueueRemovals[1].ret
    /\ QueueRemovals[1].arg.blocklist
    /\ results[1].status = "removed"
    /\ Len(results[1].blocked_files) = 2

\* C5: once the direct client remove has succeeded the result is removed,
\* whatever happens in the blocklist attempt.
C5_RemovedWhateverTheBlocklistOutcome ==
    (pc = "done" /\ Len(ClientRemovals) = 1 /\ ClientRemovals[1].ret)
        => results[1].status = "removed"

\* C6: no matching queue entry, a non-empty match set, a successful direct
\* remove, blocklisting enabled and a grabbed history record present: the first
\* grabbed record is blocklisted and the result is removed with blocklisted
\* equal to the outcome of that call.
C6_FallbackBlocklistsFirstGrabbed ==
    (/\ pc = "done"
     /\ Len(QueueListings) = 1
     /\ queue_id = None
     /\ blocked_files # <<>>
     /\ Len(ClientRemovals) = 1
     /\ ClientRemovals[1].ret
     /\ PolicyFlag
     /\ FirstGrabbed(history) # None) =>
        /\ results[1].status = "removed"
        /\ Len(CallsOf("blocklist_by_history_id")) = 1
        /\ CallsOf("blocklist_by_history_id")[1].arg = FirstGrabbed(history)
        /\ results[1].blocklisted = CallsOf("blocklist_by_history_id")[1].ret

\* C7: when the direct client remove(downloadId, deleteFiles=true) reports
\* failure the result is error (failed to remove from download client), and
\* the history/blocklist step is entered only after a successful remove.
C7_ClientRemoveFailure ==
    /\ (pc = "done" /\ Len(ClientRemovals) = 1 /\ ~ClientRemovals[1].ret) =>
          /\ ClientRemovals[1].arg = [download_id |-> payload.downloadId, delete_files |-> TRUE]
          /\ results[1].status = "error"
          /\ results[1].message.text = "Failed to remove from download client"
          /\ Len(CallsOf("get_history")) = 0
          /\ Len(CallsOf("blocklist_by_history_id")) = 0
    /\ pc = "blocklist_via_history" =>
          (Len(ClientRemovals) = 1 /\ ClientRemovals[1].ret)

C7_Witness ==
    /\ pc = "done"
    /\ Len(ClientRemovals) = 1
    /\ ~ClientRemovals[1].ret
    /\ PolicyFlag
    /\ Len(QueueRemovals) = 0

\* the identifier _get_queue_id finds in the listing taken at the start
SnapshotId ==
    IF Len(QueueListings) = 0 THEN None
    ELSE get_queue_id(QueueListings[1].ret, payload.downloadId).value

\* C8: the queue is listed once, as the first call of the run and before any
\* getManifest call, and never again; removeEntry is called with the
\* identifier found in that listing, also when the entry has left the queue
\* in the meantime.
C8_QueueIdCapturedBeforeWait ==
    /\ Len(QueueListings) <= 1
    /\ pc \notin {"start", "get_queue_id", "done"} => Len(QueueListings) = 1
    /\ (pc = "done" /\ Truthy(payload.downloadId)) => Len(QueueListings) = 1
    /\ Len(ManifestCalls) > 0 => calls[1].op = "get_queue"
    /\ \A i \in 1..Len(QueueRemovals) : QueueRemovals[i].arg.queue_id = SnapshotId
    /\ (AfterQueueStep /\ blocked_files # <<>> /\ QueueIdCaptured(SnapshotId)) =>
          Len(QueueRemovals) = 1

C8_Witness ==
    /\ Len(QueueRemovals) = 1
    /\ QueueRemovals[1].arg.queue_id = Num(42)
    /\ queue = <<>>
    /\ Len(QueueListings[1].ret) = 2

\* C9: at most 3 getManifest calls are made; every call is preceded by its own
\* delay and the delays strictly increase; no call follows a present and
\* non-empty manifest, and the manifest that is matched is the one returned by
\* the last call.
C9_ManifestWait ==
    /\ Len(ManifestCalls) <= 3
    /\ \A i \in 1..(Len(ManifestCalls) - 1) : ~PresentNonEmpty(ManifestCalls[i].ret)
    /\ \A j \in 1..Len(calls) :
          calls[j].op = "get_torrent_files" => (j > 1 /\ calls[j - 1].op = "sleep")
    /\ \A j, k \in 2..Len(calls) :
          (j < k /\ calls[j].op = "get_torrent_files" /\ calls[k].op = "get_torrent_files")
              => calls[j - 1].arg < calls[k - 1].arg
    /\ (Len(ManifestCalls) > 0 /\ PresentNonEmpty(ManifestCalls[Len(ManifestCalls)].ret)) =>
          /\ pc # "wait"
          /\ torrent_data = ManifestCalls[Len(ManifestCalls)].ret
          /\ pc # "check_files" =>
                blocked_files = MatchSetOf(ManifestCalls[Len(ManifestCalls)].ret.files)
    /\ pc \in {"check_files", "remove_from_queue", "remove_torrent",
               "blocklist_via_history"} =>
          (Len(ManifestCalls) > 0 /\ PresentNonEmpty(ManifestCalls[Len(ManifestCalls)].ret))

C9_Witness ==
    /\ Len(ManifestCalls) = 3
    /\ ~ManifestCalls[1].ret.present
    /\ ManifestCalls[2].ret.present
    /\ PresentNonEmpty(ManifestCalls[3].ret)
    /\ pc = "done"
    /\ blocked_files # <<>>

\* C10: when all 3 getManifest attempts came back absent or empty the run ends
\* with warning (could not retrieve torrent data), without matching and
\* without any removal call.
C10_ExhaustedRetriesWarn ==
    (/\ Len(ManifestCalls) = 3
     /\ \A i \in 1..3 : ~PresentNonEmpty(ManifestCalls[i].ret)) =>
        /\ pc = "done"
        /\ Len(results) = 1
        /\ results[1].status = "warning"
        /\ results[1].message.text = "Could not retrieve torrent data"
        /\ blocked_files = <<>>
        /\ Len(QueueRemovals) = 0
        /\ Len(ClientRemovals) = 0
        /\ Len(calls) = 7

C10_Witness ==
    /\ Len(ManifestCalls) = 3
    /\ ~ManifestCalls[1].ret.present
    /\ ManifestCalls[2].ret.present /\ ManifestCalls[2].ret.files = <<>>
    /\ ~ManifestCalls[3].ret.present
    /\ QueueIdCaptured(queue_id)
    /\ pc = "done"

\* C11: a manifest that is present but has no files is not ready: it uses up
\* one of the retry attempts just as an absent one does, it is never handed to
\* the matcher, and no run ends clean on it.
C11_EmptyManifestNotReady ==
    /\ pc = "wait" =>
          /\ attempt = Len(ManifestCalls)
          /\ attempt < max_retries
    /\ \A i \in 1..Len(ManifestCalls) :
          (ManifestCalls[i].ret.present /\ ManifestCalls[i].ret.files = <<>>) =>
              /\ torrent_data # ManifestCalls[i].ret
              /\ i = Len(ManifestCalls) =>
                    \/ pc = "wait" /\ i < max_retries
                    \/ pc = "done" /\ i = max_retries /\ results[1].status = "warning"
    /\ (pc = "done" /\ results[1].status = "clean") =>
          ManifestCalls[Len(ManifestCalls)].ret.files # <<>>

C11_Witness ==
    /\ Len(ManifestCalls) = 2
    /\ ManifestCalls[1].ret = Manifest(<<>>)
    /\ ManifestCalls[2].ret = Manifest(<<PathMkv>>)
    /\ pc = "done"
    /\ results[1].status = "clean"

\* the delays slept before the getManifest calls, in order
ManifestDelays ==
    LET at == SelectSeq([j \in 1..Len(calls) |-> j],
                        LAMBDA j : calls[j].op = "get_torrent_files")
    IN  [i \in 1..Len(at) |-> calls[at[i] - 1].arg]

RECURSIVE SumSeq(_)
SumSeq(s) == IF s = <<>> THEN 0 ELSE s[1] + SumSeq(Tail(s))

\* C12: the delays of the manifest wait double from a base of 2 seconds (2,
\* then 4, then 8), and the delays of one run add up to at most 14 seconds.
C12_BackoffDoubles ==
    /\ Len(ManifestDelays) <= 3
    /\ ManifestDelays = SubSeq(<<2, 4, 8>>, 1, Len(ManifestDelays))
    /\ SumSeq(ManifestDelays) <= 14

C12_Witness ==
    /\ ManifestDelays = <<2, 4, 8>>
    /\ SumSeq(ManifestDelays) = 14
    /\ pc = "done"

\* C13: a notification whose download identifier is missing, null or empty
\* ends with warning (no download ID provided) and calls neither the queue
\* directory nor the download client.
C13_MissingIdNoCalls ==
    (payload.downloadId = None \/ payload.downloadId = Str(<<>>)) =>
        /\ calls = <<>>
        /\ pc \in {"start", "done"}
        /\ pc = "done" =>
              /\ Len(results) = 1
              /\ results[1].status = "warning"
              /\ results[1].message.text = "No download ID provided"

C13_Witness ==
    /\ payload.downloadId = Str(<<>>)
    /\ pc = "done"
    /\ queue # <<>>
    /\ results[1].status = "warning"

\* C14: with a usable manifest the run ends clean exactly when the matcher
\* finds no blocked file in it, and a blocked file always leads to a removal
\* attempt (removeEntry or the direct client remove).
C14_CleanIffNoMatch ==
    (Len(ManifestCalls) > 0 /\ PresentNonEmpty(ManifestCalls[Len(ManifestCalls)].ret)) =>
        LET matched == MatchSetOf(ManifestCalls[Len(ManifestCalls)].ret.files)
        IN  /\ pc = "done" => ((results[1].status = "clean") <=> (matched = <<>>))
            /\ (pc = "done" /\ matched # <<>>) =>
                  Len(QueueRemovals) + Len(ClientRemovals) >= 1
            /\ pc \in {"remove_from_queue", "remove_torrent"} => matched # <<>>
            /\ (pc \notin {"check_files", "done"}) => matched # <<>>

C14_Witness ==
    /\ pc = "done"
    /\ Len(ManifestCalls) = 2
    /\ Len(ManifestCalls[Len(ManifestCalls)].ret.files) = 1
    /\ MatchSetOf(ManifestCalls[Len(ManifestCalls)].ret.files) # <<>>
    /\ results[1].status = "error"
    /\ Len(ClientRemovals) = 1

\* C15: a fault raised in a step of the run (here the queue lookup on an
\* ill-typed record, and the history step of the fallback) is caught inside
\* process_grab_event: the run ends with one error result that carries the
\* fault's description, and no run ends without a result.
C15_FaultsBecomeErrors ==
    /\ pc = "done" => Len(results) = 1
    /\ (Len(QueueListings) = 1
        /\ get_queue_id(QueueListings[1].ret, payload.downloadId).fault) =>
          /\ pc = "done"
          /\ Len(calls) = 1
          /\ results[1].status = "error"
          /\ results[1].message.detail = "'int' object has no attribute 'lower'"
    /\ (pc = "done" /\ Len(ClientRemovals) = 1 /\ ClientRemovals[1].ret /\ PolicyFlag) =>
          /\ results[1].status = "error"
          /\ results[1].message.detail = "'SonarrAPI' object has no attribute 'get_history'"

C15_Witness ==
    /\ pc = "done"
    /\ Len(QueueListings) = 1
    /\ Len(QueueListings[1].ret) = 2
    /\ QueueListings[1].ret[1].downloadId = Num(5)
    /\ results[1].status = "error"
    /\ results[1].message.detail = "'int' object has no attribute 'lower'"

AfterMatch == pc \in {"remove_from_queue", "remove_torrent", "done"}

\* the positions of the manifest whose file the checker takes as blocked
MatchedIndexes ==
    {i \in 1..Len(torrent_data.files) :
        is_extension_blocked(extension_checker.blocked_extensions, torrent_data.files[i])}

\* the k-th smallest of the matched positions
KthMatched(k) ==
    CHOOSE i \in MatchedIndexes : Cardinality({j \in MatchedIndexes : j <= i}) = k

\* C16: the result of check_files on a manifest M is a subsequence of M: one
\* element for every position of M whose extension is in the normalized
\* blocklist, in the order of the positions, repeated files repeated.
C16_SubsequenceInOrder ==
    AfterMatch =>
        /\ Len(blocked_files) = Cardinality(MatchedIndexes)
        /\ \A k \in 1..Len(blocked_files) :
              blocked_files[k] = torrent_data.files[KthMatched(k)]

C16_Witness ==
    /\ AfterMatch
    /\ Len(torrent_data.files) = 2
    /\ torrent_data.files[1] # torrent_data.files[2]
    /\ blocked_files = torrent_data.files

\* an entry without its leading dot
StripDot(e) == IF e # <<>> /\ e[1] = "." THEN Tail(e) ELSE e

\* two configured entries that differ only by letter case or a leading dot
SameEntry(a, b) == Lower(StripDot(a)) = Lower(StripDot(b))

\* two paths that differ only in the letter case of their extension
SameButExtensionCase(p, q) ==
    /\ Len(p) = Len(q)
    /\ Len(SplitExt(p)) = Len(SplitExt(q))
    /\ SubSeq(p, 1, Len(p) - Len(SplitExt(p))) = SubSeq(q, 1, Len(q) - Len(SplitExt(q)))
    /\ Lower(SplitExt(p)) = Lower(SplitExt(q))

\* C17: configured entries that differ only by letter case or by a leading dot
\* normalize to the same entry, two paths that differ only in the letter case
\* of their extension are both blocked or both let through, and a file is
\* blocked exactly when its extension equals a configured entry up to letter
\* case and the leading dot.
C17_CaseAndDotInsensitive ==
    /\ pc # "construct" =>
          /\ Len(extension_checker.blocked_extensions) = Len(extension_checker.configured)
          /\ \A i, j \in 1..Len(extension_checker.configured) :
                SameEntry(extension_checker.configured[i], extension_checker.configured[j])
                    => extension_checker.blocked_extensions[i]
                         = extension_checker.blocked_extensions[j]
    /\ AfterMatch =>
          /\ \A i, j \in 1..Len(torrent_data.files) :
                SameButExtensionCase(torrent_data.files[i], torrent_data.files[j])
                    => (InSeq(torrent_data.files[i], blocked_files)
                          <=> InSeq(torrent_data.files[j], blocked_files))
          /\ \A i \in 1..Len(torrent_data.files) :
                InSeq(torrent_data.files[i], blocked_files) <=>
                    /\ SplitExt(torrent_data.files[i]) # <<>>
                    /\ \E c \in 1..Len(extension_checker.configured) :
                          SameEntry(extension_checker.configured[c],
                                    SplitExt(torrent_data.files[i]))

C17_Witness ==
    /\ AfterMatch
    /\ extension_checker.configured = << <<".","E","X","E">>, <<"e","x","e">> >>
    /\ extension_checker.blocked_extensions[1] = extension_checker.blocked_extensions[2]
    /\ torrent_data.files = << PathExe, <<"s",".","e","x","e">> >>
    /\ blocked_files = torrent_data.files

\* the part of a path after its last "/"
FinalSegment(p) == SubSeq(p, RFind(p, "/") + 2, Len(p))

\* the suffix of the final segment from its last "." on, empty without a "."
SuffixFromLastDot(p) ==
    LET seg == FinalSegment(p)
    IN  IF RFind(seg, ".") = -1 THEN <<>> ELSE SubSeq(seg, RFind(seg, ".") + 1, Len(seg))

\* the final segment has a character other than "." before its last "."
HasStemBeforeLastDot(p) ==
    LET seg == FinalSegment(p)
    IN  \E k \in 1..RFind(seg, ".") : seg[k] # "."

\* C18 as stated: a path is matched on the substring after the last "." of its
\* final segment, also when that "." is the first character of the segment.
C18_Original ==
    AfterMatch =>
        \A i \in 1..Len(torrent_data.files) :
            InSeq(torrent_data.files[i], blocked_files) <=>
                /\ SuffixFromLastDot(torrent_data.files[i]) # <<>>
                /\ InSeq(Lower(SuffixFromLastDot(torrent_data.files[i])),
                         extension_checker.blocked_extensions)

\* C18 amended: a path is matched on the substring after the last "." of its
\* final segment when a character other than "." precedes that "." in the
\* segment; a final segment without a ".", or with nothing but dots before its
\* last "." (dir/.exe), has no extension and never matches; dots in directory
\* names play no part.
C18_ExtensionOfFinalSegment ==
    AfterMatch =>
        \A i \in 1..Len(torrent_data.files) :
            InSeq(torrent_data.files[i], blocked_files) <=>
                /\ HasStemBeforeLastDot(torrent_data.files[i])
                /\ InSeq(Lower(SuffixFromLastDot(torrent_data.files[i])),
                         extension_checker.blocked_extensions)

C18_Witness ==
    /\ AfterMatch
    /\ extension_checker.configured = << <<".","e","x","e">> >>
    /\ torrent_data.files = << <<"d","/",".","e","x","e">>, <<"a",".","b",".","e","x","e">> >>
    /\ blocked_files = << <<"a",".","b",".","e","x","e">> >>

\* the entry's download identifier is a string equal to the notification's,
\* character by character up to letter case
SameDownloadId(item, did) ==
    /\ item.downloadId.t = "str"
    /\ Len(item.downloadId.s) = Len(did.s)
    /\ \A k \in 1..Len(did.s) : LowerChar(item.downloadId.s[k]) = LowerChar(did.s[k])

\* the queue identifier of the first entry with the notification's download
\* identifier, None when there is none
FirstMatchId(items, did) ==
    IF \E i \in 1..Len(items) : SameDownloadId(items[i], did)
    THEN Num(items[CHOOSE i \in 1..Len(items) :
                      /\ SameDownloadId(items[i], did)
                      /\ \A j \in 1..(i - 1) : ~SameDownloadId(items[j], did)].id)
    ELSE None

\* every entry of the listing carries a string download identifier or none
WellFormedListing(items) ==
    \A i \in 1..Len(items) : items[i].downloadId.t \in {"str", "missing"}

\* C19: on a listing whose entries carry string download identifiers the lookup
\* returns the queue identifier of the first entry whose download identifier
\* equals the notification's up to letter case, in full (no prefix or partial
\* match), and nothing when no entry does; on any listing, whenever it returns,
\* it returns that.
C19_FirstExactMatch ==
    Len(QueueListings) = 1 =>
        LET items == QueueListings[1].ret
            looked == get_queue_id(items, payload.downloadId)
        IN  /\ WellFormedListing(items) =>
                  /\ pc = "wait"
                  /\ results = <<>>
                  /\ queue_id = FirstMatchId(items, payload.downloadId)
            /\ pc = "wait" => queue_id = FirstMatchId(items, payload.downloadId)
            /\ pc = "done" => (looked.fault /\ results[1].status = "error")

C19_Witness ==
    /\ pc = "wait"
    /\ Len(QueueListings) = 1
    /\ payload.downloadId = Str(IdMixed)
    /\ QueueListings[1].ret = << [id |-> 42, downloadId |-> Str(IdUpper)],
                                 [id |-> 0, downloadId |-> Str(IdLower)] >>
    /\ queue_id = Num(42)

\* the calls that remove or blocklist a download
RemovalOps == {"remove_from_queue", "remove_torrent", "get_history",
               "blocklist_by_history_id"}

\* C30: a run that ends clean or warning has called none of removeEntry, the
\* client remove, listHistory and blocklistHistoryEntry, and every such call is
\* preceded in its run by a getManifest reply that is usable and has a
\* non-empty match set.
C30_NoRemovalWithoutMatch ==
    /\ (pc = "done" /\ results[1].status \in {"clean", "warning"}) =>
          \A j \in 1..Len(calls) : calls[j].op \notin RemovalOps
    /\ \A j \in 1..Len(calls) :
          calls[j].op \in RemovalOps =>
              \E i \in 1..(j - 1) :
                  /\ calls[i].op = "get_torrent_files"
                  /\ PresentNonEmpty(calls[i].ret)
                  /\ MatchSetOf(calls[i].ret.files) # <<>>

C30_Witness ==
    /\ pc = "done"
    /\ results[1].status = "clean"
    /\ QueueIdCaptured(queue_id)
    /\ Len(ManifestCalls) = 3
    /\ Len(calls) = 7

Blocklist == <<"b","l","o","c","k","l","i","s","t">>

\* the configured action holds the letters of blocklist, as they are written
ContainsBlocklist ==
    \E i \in 0..(Len(action) - Len(Blocklist)) :
        \A k \in 1..Len(Blocklist) : action[i + k] = Blocklist[k]

\* the configured action holds the letters of blocklist in any letter case
ContainsBlocklistAnyCase ==
    \E i \in 0..(Len(action) - Len(Blocklist)) :
        \A k \in 1..Len(Blocklist) : LowerChar(action[i + k]) = Blocklist[k]

\* C26 as stated: the blocklist flag of removeEntry, the entry into the
\* fallback blocklist attempt and the blocklisted field of a queue removal are
\* true exactly when the configured action contains the substring blocklist.
C26_Original ==
    /\ \A i \in 1..Len(QueueRemovals) : QueueRemovals[i].arg.blocklist = ContainsBlocklist
    /\ pc = "blocklist_via_history" => ContainsBlocklist
    /\ (pc = "done" /\ Len(QueueRemovals) = 1 /\ QueueRemovals[1].ret) =>
          results[1].blocklisted = ContainsBlocklist

\* C26 amended: the blocklist policy is one boolean, true exactly when the
\* configured action contains blocklist in any letter case; removeEntry gets
\* it as its blocklist flag, the fallback blocklist attempt is entered exactly
\* when it is true, and a queue removal reports it as blocklisted; each use
\* derives it from the configuration as it is at that step.
C26_PolicyFromConfig ==
    /\ \A i \in 1..Len(QueueRemovals) :
          QueueRemovals[i].arg.blocklist = ContainsBlocklistAnyCase
    /\ pc = "blocklist_via_history" => ContainsBlocklistAnyCase
    /\ (pc = "done" /\ Len(ClientRemovals) = 1 /\ ClientRemovals[1].ret
        /\ ~ContainsBlocklistAnyCase) =>
          /\ results[1].status = "removed"
          /\ ~results[1].blocklisted
    /\ (pc = "done" /\ Len(ClientRemovals) = 1 /\ ClientRemovals[1].ret
        /\ ContainsBlocklistAnyCase) =>
          results[1].message.text = "Error removing from download client: "
    /\ (pc = "done" /\ Len(QueueRemovals) = 1 /\ QueueRemovals[1].ret) =>
          results[1].blocklisted = ContainsBlocklistAnyCase

C26_Witness ==
    /\ pc = "done"
    /\ action = ActRemoveAndBlocklist
    /\ Len(QueueRemovals) = 1
    /\ QueueRemovals[1].ret
    /\ QueueRemovals[1].arg.blocklist
    /\ results[1].blocklisted

\* C25: an event whose eventType is anything but Grab (a missing one
\* included) is answered 200 with status ignored; process_grab_event is not
\* run for it, and no queue, download-client or statistics call is made.
C25_NonGrabIgnored ==
    (http.body = "dict" /\ payload.eventType # Str(EventGrab)) =>
        /\ pc \in {"startup", "crashed", "request", "responded"}
        /\ calls = <<>>
        /\ stats_calls = <<>>
        /\ results = <<>>
        /\ pc = "responded" => http.responses = << Response(200, "ignored") >>

C25_Witness ==
    /\ http.body = "dict"
    /\ payload.eventType = Str(<<"g","r","a","b">>)
    /\ payload.downloadId = Str(IdMixed)
    /\ queue # <<>>
    /\ pc = "responded"
    /\ http.responses = << Response(200, "ignored") >>

SupportedClients == {QBittorrent, Transmission, Deluge}

\* C27: with a download-client type that is none of the three supported ones
\* the construction of the handler fails at startup: no request is answered,
\* no grab event is processed and no result is produced; whenever a request is
\* handled the handler has one of the three clients, the one its type names.
C27_UnsupportedClientFatal ==
    /\ (download_client.type.t # "str"
        \/ \A k \in SupportedClients :
              Len(k) # Len(download_client.type.s)
              \/ \E i \in 1..Len(k) : LowerChar(download_client.type.s[i]) # k[i]) =>
          /\ pc \in {"startup", "crashed"}
          /\ calls = <<>>
          /\ results = <<>>
          /\ stats_calls = <<>>
          /\ http.responses = <<>>
    /\ pc \notin {"startup", "crashed"} =>
          /\ download_client.client \in SupportedClients
          /\ download_client.client = Lower(download_client.type.s)

C27_Witness ==
    /\ pc = "crashed"
    /\ download_client.type = Str(<<"r","t","o","r","r","e","n","t">>)
    /\ payload.eventType = Str(EventGrab)
    /\ payload.downloadId = Str(IdMixed)
    /\ http.body = "dict"

\* ------------------------------------------------ the download clients' claims
\* the replies that are a transport or backend fault
FaultReplies == {"refused", "error", "http_error", "malformed", "403", "401",
                 "409", "auth_error"}

Returned(t) == tasks[t].pc = "returned"

RequestBudget ==
    CASE download_client.client = QBittorrent -> 3
      [] download_client.client = Deluge -> 2
      [] download_client.client = Transmission -> 2

\* C22: a capability call sends at most 3 data requests to qBittorrent, 2 to
\* Deluge and 2 to Transmission (the second only after a 409), sends at most 3
\* login or session-id requests, hands back its value exactly once, and every
\* call that was started ends.
C22_BoundedAttempts ==
    /\ [](\A t \in Tasks :
             /\ tasks[t].requests <= RequestBudget
             /\ tasks[t].logins <= 3
             /\ tasks[t].returns = (IF Returned(t) THEN 1 ELSE 0)
             /\ Returned(t) <=> tasks[t].ret # "pending")
    /\ \A t \in Tasks : (tasks[t].pc # "idle") ~> Returned(t)

C22_Witness ==
    \E t \in Tasks :
       /\ download_client.client = QBittorrent
       /\ Returned(t)
       /\ tasks[t].requests = 3
       /\ tasks[t].logins = 3
       /\ tasks[t].cause = "403"

\* the login and session-id requests that have been sent and not answered
LoginsInFlight == {t \in Tasks : tasks[t].pc \in {"login", "session_id"}}

\* C23: at most one login or session-id request of the client instance is in
\* flight at any time.
C23_OneLoginInFlight == Cardinality(LoginsInFlight) <= 1

\* C24 as stated: get_torrent_files hands back None exactly for a torrent the
\* backend does not know and an empty manifest exactly for one it knows
\* without files.
C24_Original ==
    \A t \in Tasks :
       (Returned(t) /\ tasks[t].op = "get_torrent_files") =>
          /\ tasks[t].ret = "None" <=> torrent = "unknown"
          /\ tasks[t].ret = "empty" <=> torrent = "unpopulated"

\* C24: when the backend answers the request without a fault,
\* get_torrent_files hands back None exactly for a torrent the backend does
\* not know and an empty manifest exactly for one it knows without files; with
\* or without a fault it never hands back an empty manifest for an unknown
\* torrent.
C24_NoDataCases ==
    \A t \in Tasks :
       (Returned(t) /\ tasks[t].op = "get_torrent_files") =>
          /\ tasks[t].cause = "ok" =>
                /\ tasks[t].ret = "None" <=> torrent = "unknown"
                /\ tasks[t].ret = "empty" <=> torrent = "unpopulated"
          /\ tasks[t].ret = "empty" => torrent = "unpopulated"
          /\ tasks[t].ret = "None" => (torrent = "unknown" \/ tasks[t].cause \in FaultReplies)

C24_Witness ==
    /\ torrent = "unpopulated"
    /\ \E t \in Tasks : /\ Returned(t)
                        /\ tasks[t].op = "get_torrent_files"
                        /\ tasks[t].cause = "ok"
                        /\ tasks[t].ret = "empty"
    /\ \E t \in Tasks : /\ Returned(t)
                        /\ tasks[t].op = "get_torrent_files"
                        /\ tasks[t].cause = "error"
                        /\ tasks[t].ret = "None"

\* --------------------------------------------------- the statistics' claim
\* the additions to counter `key` that the call of thread t has stored
Written(t, key) ==
    Cardinality({j \in 1..(callers[t].i - 1) : callers[t].keys[j] = key})

RECURSIVE WrittenBy(_, _)
WrittenBy(S, key) ==
    IF S = {} THEN 0
    ELSE LET t == CHOOSE x \in S : TRUE
         IN  Written(t, key) + WrittenBy(S \ {t}, key)

InsideLock == {t \in Tasks : callers[t].pc \in {"read", "write", "save", "load", "release"}}

\* C29: whatever the interleaving of increment_processed, increment_blocked,
\* increment_errors and add_blocked_file calls of concurrent threads on one
\* Statistics object, every counter equals the number of additions the calls
\* have made to it (no addition is lost), and at most one thread is inside the
\* lock.
C29_NoLostUpdate ==
    (\A t \in Tasks : callers[t].op # "get_stats") =>
        /\ Cardinality(InsideLock) <= 1
        /\ \A key \in StatsKeys : stats.counts[key] = WrittenBy(Tasks, key)

C29_Witness ==
    /\ \A t \in Tasks : callers[t].pc = "done"
    /\ \E t \in Tasks : callers[t].op = "increment_blocked"
    /\ \E t \in Tasks : callers[t].op = "add_blocked_file" /\ Len(callers[t].keys) = 2
    /\ stats.counts[Total("total_blocked")] = 1
    /\ stats.counts[StatsKey(PathExe)] = 2

\* ------------------------------------------------ the claim about two runs
CallsIn(run, op) == SelectSeq(run.calls, LAMBDA c : c.op = op)

\* the queue identifier, manifest, match set and result of a run are those its
\* own payload and the answers to its own calls give
OwnOutcome(run) ==
    LET did == run.payload.downloadId
        listings == CallsIn(run, "get_queue")
        manifests == CallsIn(run, "get_torrent_files")
        queue_removals == CallsIn(run, "remove_from_queue")
        client_removals == CallsIn(run, "remove_torrent")
        snapshot == IF listings = <<>> THEN None
                    ELSE get_queue_id(listings[1].ret, did).value
        usable == manifests # <<>> /\ PresentNonEmpty(manifests[Len(manifests)].ret)
    IN  /\ run.queue_id = snapshot
        /\ \A i \in 1..Len(manifests) : manifests[i].arg = did
        /\ run.torrent_data = IF usable THEN manifests[Len(manifests)].ret ELSE Absent
        /\ run.blocked_files \in {<<>>, MatchSetOf(run.torrent_data.files)}
        /\ run.pc \in {"remove_from_queue", "remove_torrent", "blocklist_via_history"}
              => (usable /\ run.blocked_files = MatchSetOf(run.torrent_data.files)
                         /\ run.blocked_files # <<>>)
        /\ \A i \in 1..Len(queue_removals) : queue_removals[i].arg.queue_id = snapshot
        /\ \A i \in 1..Len(client_removals) : client_removals[i].arg.download_id = did
        /\ (run.pc = "done") <=> (Len(run.results) = 1)
        /\ run.results # <<>> =>
              LET res == run.results[1]
              IN  /\ res.blocked_files \in {<<>>, run.blocked_files}
                  /\ res.status = "clean" <=>
                        (usable /\ MatchSetOf(run.torrent_data.files) = <<>>)
                  /\ res.status = "warning" => ~usable
                  /\ res.status = "removed" =>
                        /\ res.blocked_files = MatchSetOf(run.torrent_data.files)
                        /\ res.blocked_files # <<>>
                        /\ \/ queue_removals # <<>> /\ queue_removals[1].ret
                           \/ client_removals # <<>> /\ client_removals[1].ret

\* C28: whatever the interleaving of two runs of process_grab_event for
\* different download identifiers, the queue identifier, manifest, match set
\* and terminal result of each run are the ones its own payload and the
\* answers to its own capability calls give, as for a run alone; the handler's
\* extension list, the only state both runs read, stays as constructed.
C28_RunsIndependent ==
    /\ OwnOutcome(RunLocals)
    /\ OwnOutcome(parked)
    /\ extension_checker = ExtensionChecker(ConfiguredExtensions)

C28_Witness ==
    /\ pc = "done"
    /\ parked.pc = "done"
    /\ payload.downloadId # parked.payload.downloadId
    /\ {queue_id, parked.queue_id} = {Num(42), Num(8)}
    /\ {results[1].status, parked.results[1].status} = {"removed", "clean"}
    /\ {torrent_data, parked.torrent_data} = {Manifest(<<PathExe>>), Manifest(<<PathMkv>>)}

\* --------------------------------------------------- the last pipeline claims
\* the listing of the run has an entry for the notification's download
SnapshotHasEntry ==
    /\ Len(QueueListings) = 1
    /\ payload.downloadId.t = "str"
    /\ FirstMatchId(QueueListings[1].ret, payload.downloadId) # None

\* C31: when the listing taken at the start of the run has an entry for the
\* notification's download identifier, its queue identifier (0 included) is
\* kept and, for a non-empty match set, the first removal call of the run is
\* remove_from_queue with that identifier.
C31_QueueRemovalForEveryId ==
    (SnapshotHasEntry /\ pc \in {"wait", "check_files", "remove_from_queue",
                                 "remove_torrent", "blocklist_via_history"}) =>
        /\ queue_id = FirstMatchId(QueueListings[1].ret, payload.downloadId)
        /\ (AfterQueueStep /\ blocked_files # <<>>) =>
              /\ Len(QueueRemovals) = 1
              /\ QueueRemovals[1].arg.queue_id = queue_id

\* C32: a run ends with status removed only if one of its removal calls
\* (remove_from_queue or remove_torrent) returned success, and the removed
\* result carries a non-empty blocked_files equal to the match set of the
\* manifest the run obtained.
C32_RemovedOnlyAfterSuccess ==
    \A i \in 1..Len(results) :
       results[i].status = "removed" =>
          /\ \/ \E j \in 1..Len(QueueRemovals) : QueueRemovals[j].ret
             \/ \E j \in 1..Len(ClientRemovals) : ClientRemovals[j].ret
          /\ Len(ManifestCalls) > 0
          /\ PresentNonEmpty(ManifestCalls[Len(ManifestCalls)].ret)
          /\ results[i].blocked_files # <<>>
          /\ results[i].blocked_files =
                MatchSetOf(ManifestCalls[Len(ManifestCalls)].ret.files)

C32_Witness ==
    /\ pc = "done"
    /\ results[1].status = "removed"
    /\ results[1].removed_from = "download_client"
    /\ Len(QueueRemovals) = 1
    /\ ~QueueRemovals[1].ret
    /\ ClientRemovals[1].ret
    /\ Len(results[1].blocked_files) = 2

\* the queue identifiers of the listed entries that are the notification's download
OwnQueueIds ==
    IF Len(QueueListings) = 0 THEN {}
    ELSE {Num(QueueListings[1].ret[k].id) : k \in
             {k \in 1..Len(QueueListings[1].ret) :
                 SameDownloadId(QueueListings[1].ret[k], payload.downloadId)}}

\* C33: remove_from_queue is only called with the queue identifier of a listed
\* entry whose download identifier is the notification's up to letter case;
\* remove_torrent and get_history are only called with the notification's own
\* download identifier.
C33_OwnDownloadOnly ==
    /\ \A i \in 1..Len(QueueRemovals) : QueueRemovals[i].arg.queue_id \in OwnQueueIds
    /\ \A i \in 1..Len(ClientRemovals) :
          ClientRemovals[i].arg.download_id = payload.downloadId
    /\ \A i \in 1..Len(calls) :
          calls[i].op = "get_history" => calls[i].arg = payload.downloadId

C33_Witness ==
    /\ pc = "done"
    /\ Len(QueueListings) = 1
    /\ Len(QueueListings[1].ret) = 2
    /\ \E k \in 1..2 : ~SameDownloadId(QueueListings[1].ret[k], payload.downloadId)
    /\ Len(QueueRemovals) = 1
    /\ QueueRemovals[1].arg.queue_id = Num(42)
    /\ Len(ClientRemovals) = 1

\* the positions of the get_torrent_files calls in the run
ManifestCallAt == SelectSeq([j \in 1..Len(calls) |-> j],
                            LAMBDA j : calls[j].op = "get_torrent_files")

\* the time slept before the k-th get_torrent_files call, 0 if none
DelayBefore(k) ==
    LET j == ManifestCallAt[k]
    IN  IF j > 1 /\ calls[j - 1].op = "sleep" THEN calls[j - 1].arg ELSE 0

RECURSIVE WaitCost(_)
WaitCost(k) == IF k = 0 THEN 0 ELSE DelayBefore(k) + WaitCost(k - 1)

\* C34: the k-th get_torrent_files call of a run (k = 1, 2, 3) comes right
\* after its own sleep of 2^k seconds, the first included, so a run that gets
\* its manifest at call k has slept 2^(k+1) - 2 seconds for it; every other
\* sleep of the run is the one after a queue removal, so no delay follows the
\* last call.
C34_DelayBeforeEveryAttempt ==
    /\ Len(ManifestCallAt) <= 3
    /\ \A k \in 1..Len(ManifestCallAt) :
          /\ ManifestCallAt[k] > 1
          /\ calls[ManifestCallAt[k] - 1] = Call("sleep", 2 ^ k, NoArg)
          /\ WaitCost(k) = 2 ^ (k + 1) - 2
    /\ \A j \in 1..Len(calls) :
          (calls[j].op = "sleep"
              /\ (j = Len(calls) \/ calls[j + 1].op # "get_torrent_files")) =>
             (j > 1 /\ calls[j - 1].op = "remove_from_queue")

C34_Witness ==
    /\ Len(ManifestCallAt) = 3
    /\ PresentNonEmpty(calls[ManifestCallAt[3]].ret)
    /\ WaitCost(3) = 14
    /\ pc = "done"
    /\ calls[Len(calls)].op = "remove_torrent"

\* C35: when the configured action does not ask for blocklisting and the
\* direct remove_torrent succeeds, the run makes no get_history and no
\* blocklist_by_history_id call and ends with removed, removed_from
\* download_client and blocklisted false.
C35_FallbackWithoutBlocklist ==
    (~ContainsBlocklistAnyCase /\ Len(ClientRemovals) > 0 /\ ClientRemovals[1].ret) =>
        /\ pc = "done"
        /\ calls[Len(calls)].op = "remove_torrent"
        /\ \A i \in 1..Len(calls) :
              calls[i].op \notin {"get_history", "blocklist_by_history_id"}
        /\ results[1].status = "removed"
        /\ results[1].removed_from = "download_client"
        /\ ~results[1].blocklisted

C35_Witness ==
    /\ ~ContainsBlocklistAnyCase
    /\ Len(QueueRemovals) = 0
    /\ Len(ClientRemovals) = 1
    /\ ClientRemovals[1].ret
    /\ results[1].status = "removed"

\* ------------------------------------------------- the statistics forwarding
\* how many elements of the sequence s satisfy Test
CountWhere(s, Test(_)) == Cardinality({i \in 1..Len(s) : Test(s[i])})

\* calls of one operation of the statistics sink
Forwarded(op) == CountWhere(stats_calls, LAMBDA c : c.op = op)

\* results of one status that process_grab_event has returned
Returned_Results(status) == CountWhere(results, LAMBDA r : r.status = status)

\* requests in which an exception reached the except clause of handle_webhook
Escaped == CountWhere(http.responses, LAMBDA r : r.code = 500)

\* C36: between requests, increment_blocked has been called once per removed
\* result and increment_processed once per clean result; warning and error
\* results have called no counter, increment_errors has been called once per
\* request whose exception reached the ingress handler and never otherwise,
\* and no request has made more than one counter grow.
C36_StatsForwarding ==
    pc \in {"request", "responded"} =>
        /\ Forwarded("increment_blocked") = Returned_Results("removed")
        /\ Forwarded("increment_processed") = Returned_Results("clean")
        /\ Forwarded("increment_errors") = Escaped
        /\ Forwarded("add_blocked_file") = Returned_Results("removed")
        /\ Len(results) + Escaped <= Len(http.responses)

C36_Witness ==
    /\ pc = "responded"
    /\ Len(http.responses) = MaxEvents
    /\ Len(results) = MaxEvents
    /\ results[1].status = "removed"
    /\ results[Len(results)].status = "error"
    /\ Forwarded("increment_blocked") = 1
    /\ Forwarded("increment_errors") = 0

\* ------------------------------------------------ the clients' session state
\* the clients that log in: qBittorrent and Deluge
Sessioned == download_client.client \in {QBittorrent, Deluge}

\* the thread t sends a login request in this step
SendsLogin(t) == tasks'[t].logins = tasks[t].logins + 1

\* the thread t sends a data request in this step
SendsData(t) == tasks'[t].requests = tasks[t].requests + 1

\* the thread t sees an expired session in this step and goes on to its next
\* attempt
SeesExpiry(t) == tasks'[t].attempt = tasks[t].attempt + 1

\* C37: for qBittorrent and Deluge, a login is sent only from inside a
\* capability call and only while the instance is marked unauthenticated; a
\* data request is sent only while the instance is marked authenticated, and
\* only after the sending call has logged in once for every expired session
\* it has seen; an expiry seen with attempts left marks the instance
\* unauthenticated.
C37_SessionStateMachine ==
    [][Sessioned =>
         \A t \in Tasks :
            /\ SendsLogin(t) =>
                   /\ tasks[t].pc \in {"outer_ensure", "ensure"}
                   /\ ~session.authenticated
            /\ SendsData(t) =>
                   /\ session.authenticated
                   /\ tasks[t].logins >= tasks[t].attempt
            /\ SeesExpiry(t) =>
                   /\ AttemptsRemain(download_client.client, tasks[t].attempt)
                   /\ ~session'.authenticated]_vars

====
